---- MODULE Spec2Model ----
(***************************************************************************)
(* Model of the 2.5D wall renderer of canvas_game_scaffolding:             *)
(* Vector3 / Vector2 arithmetic, Camera, Mesh, and the Renderer3D          *)
(* pipeline (world transform, view transform, max-depth sort key,          *)
(* back-to-front sort, near-plane clip, projection, rasterisation).        *)
(* Also modelled: Mesh.createRoom, the vector classes as objects, and the  *)
(* EntityManager with its deferred add and remove queues.                  *)
(*                                                                         *)
(* Numbers.  JavaScript numbers are modelled as exact rationals <<n, d>>   *)
(* in lowest terms with d > 0; the value <<0, 0>> stands for a non-finite  *)
(* result (Infinity or NaN, the result of a division by zero).  Rounding   *)
(* of IEEE doubles is not modelled.  Angles are modelled by identifiers:   *)
(* k in -3..3 is k quarter turns, and Theta / -Theta is the angle whose    *)
(* cosine is 3/5 and whose sine is 4/5 / -4/5, so that Math.cos and        *)
(* Math.sin are exact rationals on every angle of the model.               *)
(*                                                                         *)
(* Records.  Every record constructor lists its fields in the order in     *)
(* which the field names first occur in this module, the order in which    *)
(* TLC keeps them.                                                         *)
(***************************************************************************)
EXTENDS Integers, Sequences, FiniteSets, TLC

VARIABLES scene, camera, width, height, ctx, calls, transformedFaces, phase, proj,
          result, heap, manager, objects, trace, input, listening, game, arkanoid,
          scenes, now, launcher

vars == <<scene, camera, width, height, ctx, calls, transformedFaces, phase, proj,
          result, heap, manager, objects, trace, input, listening, game, arkanoid,
          scenes, now, launcher>>

\* The state of the renderer, its canvas and the game that drives it.
rendererVars == <<scene, camera, width, height, ctx, calls, transformedFaces, phase>>

\* The records of the calls of the library functions, and the vector
\* objects they work on.
callVars == <<proj, result, heap>>

\* The entity manager, the entity objects created so far, and the calls the
\* manager made on entities during its last operation.
managerVars == <<manager, objects, trace>>

\* The input manager and the event types it has listeners for on window.
inputVars == <<input, listening>>

\* The Game object, the fields ArkanoidGame adds to it, the scene objects,
\* the clock performance.now() reads, and the GameLauncher object.
loopVars == <<game, arkanoid, scenes, now, launcher>>

\* The game framework.
gameVars == <<inputVars, loopVars>>

(***************************************************************************)
(* Bounds of the model.                                                    *)
(***************************************************************************)
MaxMeshes == 2
MaxCamSteps == 1

(***************************************************************************)
(* Rational arithmetic.                                                    *)
(***************************************************************************)
Abs(n) == IF n < 0 THEN -n ELSE n

RECURSIVE Gcd(_, _)
Gcd(a, b) == IF b = 0 THEN a ELSE Gcd(b, a % b)

NonFinite == <<0, 0>>

IsFinite(a) == a[2] # 0

Norm(n, d) ==
  IF d = 0 THEN NonFinite
  ELSE LET g == Gcd(Abs(n), Abs(d))
           s == IF d < 0 THEN -1 ELSE 1
       IN  <<(s * n) \div g, (s * d) \div g>>

R(n) == <<n, 1>>

RAdd(a, b) ==
  IF ~IsFinite(a) \/ ~IsFinite(b) THEN NonFinite
  ELSE IF a[2] = 1 /\ b[2] = 1 THEN <<a[1] + b[1], 1>>
  ELSE Norm(a[1] * b[2] + b[1] * a[2], a[2] * b[2])

RNeg(a) == IF ~IsFinite(a) THEN NonFinite ELSE <<-a[1], a[2]>>

RSub(a, b) == RAdd(a, RNeg(b))

RMul(a, b) ==
  IF ~IsFinite(a) \/ ~IsFinite(b) THEN NonFinite
  ELSE IF a[2] = 1 /\ b[2] = 1 THEN <<a[1] * b[1], 1>>
  ELSE Norm(a[1] * b[1], a[2] * b[2])

\* JavaScript division: a division by zero gives a non-finite value, no error.
RDiv(a, b) ==
  IF ~IsFinite(a) \/ ~IsFinite(b) THEN NonFinite
  ELSE Norm(a[1] * b[2], a[2] * b[1])

\* a < b; every comparison with a non-finite value is false, as with NaN.
RLt(a, b) == IsFinite(a) /\ IsFinite(b) /\ a[1] * b[2] < b[1] * a[2]

RLe(a, b) == IsFinite(a) /\ IsFinite(b) /\ a[1] * b[2] <= b[1] * a[2]

\* Math.max
RMax(a, b) ==
  IF ~IsFinite(a) \/ ~IsFinite(b) THEN NonFinite
  ELSE IF RLt(a, b) THEN b ELSE a

\* Math.min
RMin(a, b) ==
  IF ~IsFinite(a) \/ ~IsFinite(b) THEN NonFinite
  ELSE IF RLt(b, a) THEN b ELSE a

\* JavaScript evaluates an expression once and binds its value to a const:
\* Value({e : v \in {x}}) is e with v bound to the value of x.
Value(S) == CHOOSE e \in S : TRUE

Undefined == "undefined"

\* The set of the elements of a list.
Range(list) == {list[i] : i \in DOMAIN list}

(***************************************************************************)
(* Angles: Math.cos and Math.sin.                                          *)
(***************************************************************************)
Theta == 10

Angles == {-3, -2, -1, 0, 1, 2, 3, Theta, -Theta}

Cos(angle) ==
  IF angle = Theta \/ angle = -Theta THEN <<3, 5>>
  ELSE CASE angle % 4 = 0 -> R(1)
         [] angle % 4 = 1 -> R(0)
         [] angle % 4 = 2 -> R(-1)
         [] angle % 4 = 3 -> R(0)

Sin(angle) ==
  IF angle = Theta THEN <<4, 5>>
  ELSE IF angle = -Theta THEN <<-4, 5>>
  ELSE CASE angle % 4 = 0 -> R(0)
         [] angle % 4 = 1 -> R(1)
         [] angle % 4 = 2 -> R(0)
         [] angle % 4 = 3 -> R(-1)

(***************************************************************************)
(* utils/math.ts and utils/Vector3.ts: the vector types                    *)
(***************************************************************************)
Vector2(x, y) == [x |-> x, y |-> y]

Vector3(x, y, z) == [x |-> x, y |-> y, z |-> z]

\* Vector3 with integer components
V3(x, y, z) == Vector3(R(x), R(y), R(z))

(***************************************************************************)
(* core/3d/Camera.ts and core/3d/Mesh.ts                                   *)
(***************************************************************************)
Camera(position, rotation, fov) ==
  [position |-> position, rotation |-> rotation, fov |-> fov]

Mesh(position) ==
  [position |-> position, rotation |-> 0, scale |-> V3(1, 1, 1), faces |-> <<>>]

addFace(mesh, p1, p2, color) ==
  [mesh EXCEPT !.faces = Append(@, [p1 |-> p1, p2 |-> p2, color |-> color])]

(***************************************************************************)
(* utils/math.ts and utils/Vector3.ts: functions and methods               *)
(***************************************************************************)
\* Variant: the sine is taken of the unsigned angle, so that a rotation by
\* -angle turns the same way as a rotation by angle.
rotateVector2Unsigned(v, angle) ==
  LET cos == Cos(angle)
      sin == Sin(IF angle < 0 THEN -angle ELSE angle)
  IN  Vector2(RSub(RMul(v.x, cos), RMul(v.y, sin)),
              RAdd(RMul(v.x, sin), RMul(v.y, cos)))

rotateVector2(v, angle) ==
  LET cos == Cos(angle)
      sin == Sin(angle)
  IN  Vector2(RSub(RMul(v.x, cos), RMul(v.y, sin)),
              RAdd(RMul(v.x, sin), RMul(v.y, cos)))

lerp(a, b, t) == RAdd(a, RMul(RSub(b, a), t))

EPSILON_Z == <<1, 1000>>

\* Variant: the depth is used as the divisor without the epsilon floor.
safeZUnclamped(v) == v.z

\* The divisor of Vector3.project: Math.max(this.z, 0.001)
safeZ(v) == RMax(v.z, EPSILON_Z)

\* Variant: the focal length is multiplied by the depth instead of divided.
projectTimesDepth(v, focalLength, screenCenter) ==
  LET scale == RMul(focalLength, safeZ(v))
  IN  Vector2(RAdd(screenCenter.x, RMul(v.x, scale)),
              RAdd(screenCenter.y, RMul(v.y, scale)))

project(v, focalLength, screenCenter) ==
  LET scale == RDiv(focalLength, safeZ(v))
  IN  Vector2(RAdd(screenCenter.x, RMul(v.x, scale)),
              RAdd(screenCenter.y, RMul(v.y, scale)))

(***************************************************************************)
(* The CanvasRenderingContext2D the renderer draws on.  The statements of  *)
(* clear and drawFace that touch the context are commands, run in order on *)
(* a context value c that holds the styles and the current path of the     *)
(* canvas and the log of the method calls made on it.  A drawing call is   *)
(* logged with the style and the path it takes effect with.                *)
(***************************************************************************)
Cmd(op, args) == [op |-> op, args |-> args]

\* A canvas context as the browser creates it.
NewContext ==
  [calls |-> <<>>, fillStyle |-> "#000000", strokeStyle |-> "#000000",
   path |-> <<>>, lineWidth |-> 1]

Call(op, args, path, lineWidth, style) ==
  [op |-> op, args |-> args, path |-> path, lineWidth |-> lineWidth, style |-> style]

\* The index of the last of cmds[1..i-1] whose method is in ops, 0 if none.
LastBefore(cmds, i, ops) ==
  LET S == {j \in 1..(i - 1) : cmds[j].op \in ops}
  IN  IF S = {} THEN 0 ELSE CHOOSE j \in S : \A k \in S : k <= j

\* The value of the property prop of the context before cmds[i].
Setting(c, cmds, i, prop) ==
  Value({(IF j = 0 THEN c[prop] ELSE cmds[j].args[1]) :
           j \in {LastBefore(cmds, i, {prop})}})

PathEntry(cmd) ==
  CASE cmd.op = "moveTo" -> <<"M", cmd.args[1], cmd.args[2]>>
    [] cmd.op = "lineTo" -> <<"L", cmd.args[1], cmd.args[2]>>
    [] cmd.op = "closePath" -> <<"Z", R(0), R(0)>>

\* The current path of the context before cmds[i]: beginPath empties it,
\* moveTo, lineTo and closePath extend it.
PathAt(c, cmds, i) ==
  Value({
    Value({
      (IF b = 0 THEN c.path ELSE <<>>) \o [k \in 1..Len(seg) |-> PathEntry(seg[k])] :
      seg \in {SelectSeq(SubSeq(cmds, b + 1, i - 1),
                         LAMBDA cmd : cmd.op \in {"moveTo", "lineTo", "closePath"})}}) :
    b \in {LastBefore(cmds, i, {"beginPath"})}})

\* The log entry of the method call cmds[i].
CallOf(c, cmds, i) ==
  CASE cmds[i].op = "fillRect" ->
         Call("fillRect", cmds[i].args, <<>>, 0, Setting(c, cmds, i, "fillStyle"))
    [] cmds[i].op = "fill" ->
         Call("fill", <<>>, PathAt(c, cmds, i), 0, Setting(c, cmds, i, "fillStyle"))
    [] cmds[i].op = "stroke" ->
         Call("stroke", <<>>, PathAt(c, cmds, i), Setting(c, cmds, i, "lineWidth"),
              Setting(c, cmds, i, "strokeStyle"))
    [] OTHER -> Call(cmds[i].op, cmds[i].args, <<>>, 0, "")

\* The context after the commands cmds, run in order.
Run(c, cmds) ==
  Value({
    Value({
      [calls |-> c.calls \o [k \in 1..Len(drawn) |-> CallOf(c, cs, drawn[k])],
       fillStyle |-> Setting(c, cs, Len(cs) + 1, "fillStyle"),
       strokeStyle |-> Setting(c, cs, Len(cs) + 1, "strokeStyle"),
       path |-> PathAt(c, cs, Len(cs) + 1),
       lineWidth |-> Setting(c, cs, Len(cs) + 1, "lineWidth")] :
      drawn \in {SelectSeq([i \in 1..Len(cs) |-> i],
                           LAMBDA i : cs[i].op \notin {"fillStyle", "strokeStyle", "lineWidth"})}}) :
    cs \in {cmds}})

(***************************************************************************)
(* core/3d/Renderer3D.ts                                                   *)
(***************************************************************************)
skyColor == "#000022"

floorColor == "#050510"

horizonColor == "#330066"

\* Variant: the near plane a little further, so that a depth of 1.0 is
\* behind it.
NEAR_PLANE_BEYOND == <<11, 10>>

NEAR_PLANE == R(1)

CEILING_Y == R(-20)

FLOOR_Y == R(20)

\* Variant: clear() strokes the horizon without setting strokeStyle.
clearKeepStrokeStyle(w, h) ==
  LET centerY == RDiv(h, R(2))
  IN  << Cmd("fillStyle", <<floorColor>>),
         Cmd("fillRect", <<R(0), R(0), w, h>>),
         Cmd("fillStyle", <<skyColor>>),
         Cmd("fillRect", <<R(0), R(0), w, centerY>>),
         Cmd("lineWidth", <<2>>),
         Cmd("beginPath", <<>>),
         Cmd("moveTo", <<R(0), centerY>>),
         Cmd("lineTo", <<w, centerY>>),
         Cmd("stroke", <<>>) >>

\* Variant: clear() paints the surface size the renderer was constructed with.
clearInitialSize(w, h) ==
  LET centerY == RDiv(R(600), R(2))
  IN  << Cmd("fillStyle", <<floorColor>>),
         Cmd("fillRect", <<R(0), R(0), R(800), R(600)>>),
         Cmd("fillStyle", <<skyColor>>),
         Cmd("fillRect", <<R(0), R(0), R(800), centerY>>),
         Cmd("strokeStyle", <<horizonColor>>),
         Cmd("lineWidth", <<2>>),
         Cmd("beginPath", <<>>),
         Cmd("moveTo", <<R(0), centerY>>),
         Cmd("lineTo", <<R(800), centerY>>),
         Cmd("stroke", <<>>) >>

clear(w, h) ==
  LET centerY == RDiv(h, R(2))
  IN  << Cmd("fillStyle", <<floorColor>>),
         Cmd("fillRect", <<R(0), R(0), w, h>>),
         Cmd("fillStyle", <<skyColor>>),
         Cmd("fillRect", <<R(0), R(0), w, centerY>>),
         Cmd("strokeStyle", <<horizonColor>>),
         Cmd("lineWidth", <<2>>),
         Cmd("beginPath", <<>>),
         Cmd("moveTo", <<R(0), centerY>>),
         Cmd("lineTo", <<w, centerY>>),
         Cmd("stroke", <<>>) >>

transformPointToWorld(p, mesh) ==
  LET rot == rotateVector2(Vector2(p.x, p.z), mesh.rotation)
  IN  Vector3(RAdd(rot.x, mesh.position.x),
              RAdd(p.y, mesh.position.y),
              RAdd(rot.y, mesh.position.z))

\* Variant: the point is rotated about the world origin first and the
\* camera position subtracted afterwards.
transformPointToViewRotateFirst(p, cam) ==
  LET angle == -cam.rotation
      rot == rotateVector2(Vector2(p.x, p.z), angle)
  IN  Vector3(RSub(rot.x, cam.position.x), RSub(p.y, cam.position.y),
              RSub(rot.y, cam.position.z))

\* Variant: the lateral and the depth coordinate of the view point exchanged.
transformPointToViewExchanged(p, cam) ==
  LET relX == RSub(p.x, cam.position.x)
      relY == RSub(p.y, cam.position.y)
      relZ == RSub(p.z, cam.position.z)
      angle == -cam.rotation
      rot == rotateVector2(Vector2(relX, relZ), angle)
  IN  Vector3(rot.y, relY, rot.x)

transformPointToView(p, cam) ==
  LET relX == RSub(p.x, cam.position.x)
      relY == RSub(p.y, cam.position.y)
      relZ == RSub(p.z, cam.position.z)
      angle == -cam.rotation
      rot == rotateVector2(Vector2(relX, relZ), angle)
  IN  Vector3(rot.x, relY, rot.y)

\* Variant: the average of the two depths as sort key.
sortDepthAverage(p1View, p2View) == RDiv(RAdd(p1View.z, p2View.z), R(2))

\* The sort key of a face with view-space endpoints p1View, p2View.
sortDepthOf(p1View, p2View) == RMax(p1View.z, p2View.z)

\* The body of the two nested loops of render for one face of one mesh.
toRenderableFace(face, mesh, cam) ==
  LET p1World == transformPointToWorld(face.p1, mesh)
      p2World == transformPointToWorld(face.p2, mesh)
      p1View == transformPointToView(p1World, cam)
      p2View == transformPointToView(p2World, cam)
  IN  [p1 |-> p1View, p2 |-> p2View, color |-> face.color,
       sortDepth |-> sortDepthOf(p1View, p2View)]

\* The array transformedFaces after the loops over scene[from..] .
RECURSIVE collectFaces(_, _, _)
collectFaces(sc, cam, from) ==
  IF from > Len(sc) THEN <<>>
  ELSE [i \in 1..Len(sc[from].faces) |-> toRenderableFace(sc[from].faces[i], sc[from], cam)]
       \o collectFaces(sc, cam, from + 1)

\* Variant: the comparator with its operands exchanged (nearest first).
compareFacesAscending(a, b) == RSub(a.sortDepth, b.sortDepth)

\* The comparator given to Array.prototype.sort.
compareFaces(a, b) == RSub(b.sortDepth, a.sortDepth)

\* Array.prototype.sort is stable: x is placed before the first element
\* that the comparator orders after it.
RECURSIVE insertSorted(_, _, _)
insertSorted(sorted, x, from) ==
  IF from > Len(sorted) THEN Append(sorted, x)
  ELSE IF RLt(R(0), compareFaces(sorted[from], x))
       THEN SubSeq(sorted, 1, from - 1) \o <<x>> \o SubSeq(sorted, from, Len(sorted))
       ELSE insertSorted(sorted, x, from + 1)

RECURSIVE sortInto(_, _, _)
sortInto(sorted, faces, from) ==
  IF from > Len(faces) THEN sorted
  ELSE Value({sortInto(next, faces, from + 1) :
                next \in {insertSorted(sorted, faces[from], 1)}})

\* Variant: the array is drawn unsorted.
sortFacesNone(faces) == faces

sortFaces(faces) == sortInto(<<>>, faces, 1)

\* Variant: the drop test looks at the first endpoint only.
isDroppedFirstOnly(face) == RLt(face.p1.z, NEAR_PLANE)

\* drawFace: both endpoints behind the near plane, the face is dropped.
isDropped(face) == RLt(face.p1.z, NEAR_PLANE) /\ RLt(face.p2.z, NEAR_PLANE)

\* Variant: the clip parameter is measured from the second endpoint.
clipFaceFromSecond(face) ==
  LET v1 == face.p1
      v2 == face.p2
  IN  IF RLt(v1.z, NEAR_PLANE) \/ RLt(v2.z, NEAR_PLANE)
      THEN LET t == RDiv(RSub(NEAR_PLANE, v2.z), RSub(v2.z, v1.z))
               newV == Vector3(lerp(v1.x, v2.x, t), R(0), NEAR_PLANE)
           IN  IF RLt(v1.z, NEAR_PLANE) THEN [t |-> t, v1 |-> newV, v2 |-> v2]
               ELSE [t |-> t, v1 |-> v1, v2 |-> newV]
      ELSE [t |-> NonFinite, v1 |-> v1, v2 |-> v2]

\* Variant: the clip point always replaces the first endpoint.
clipFaceAlwaysFirst(face) ==
  LET v1 == face.p1
      v2 == face.p2
  IN  IF RLt(v1.z, NEAR_PLANE) \/ RLt(v2.z, NEAR_PLANE)
      THEN LET t == RDiv(RSub(NEAR_PLANE, v1.z), RSub(v2.z, v1.z))
               newV == Vector3(lerp(v1.x, v2.x, t), R(0), NEAR_PLANE)
           IN  [t |-> t, v1 |-> newV, v2 |-> v2]
      ELSE [t |-> NonFinite, v1 |-> v1, v2 |-> v2]

\* drawFace: the endpoints v1, v2 after the clipping block.
clipFace(face) ==
  LET v1 == face.p1
      v2 == face.p2
  IN  IF RLt(v1.z, NEAR_PLANE) \/ RLt(v2.z, NEAR_PLANE)
      THEN LET t == RDiv(RSub(NEAR_PLANE, v1.z), RSub(v2.z, v1.z))
               newX == lerp(v1.x, v2.x, t)
               newZ == NEAR_PLANE
               newV == Vector3(newX, R(0), newZ)
           IN  IF RLt(v1.z, NEAR_PLANE) THEN [t |-> t, v1 |-> newV, v2 |-> v2]
               ELSE [t |-> t, v1 |-> v1, v2 |-> newV]
      ELSE [t |-> NonFinite, v1 |-> v1, v2 |-> v2]

\* Variant: the quad is extruded from the endpoints' own heights.
projectFaceAtHeight(face, fov, center) ==
  Value({[p1Bottom |-> project(Vector3(cl.v1.x, RAdd(cl.v1.y, FLOOR_Y), cl.v1.z), fov, center),
     p2Bottom |-> project(Vector3(cl.v2.x, RAdd(cl.v2.y, FLOOR_Y), cl.v2.z), fov, center),
     p1Top |-> project(Vector3(cl.v1.x, RAdd(cl.v1.y, CEILING_Y), cl.v1.z), fov, center),
     p2Top |-> project(Vector3(cl.v2.x, RAdd(cl.v2.y, CEILING_Y), cl.v2.z), fov, center)] :
    cl \in {clipFace(face)}})

\* drawFace: the four projected screen points.
projectFace(face, fov, center) ==
  Value({[p1Bottom |-> project(Vector3(cl.v1.x, FLOOR_Y, cl.v1.z), fov, center),
     p2Bottom |-> project(Vector3(cl.v2.x, FLOOR_Y, cl.v2.z), fov, center),
     p1Top |-> project(Vector3(cl.v1.x, CEILING_Y, cl.v1.z), fov, center),
     p2Top |-> project(Vector3(cl.v2.x, CEILING_Y, cl.v2.z), fov, center)] :
    cl \in {clipFace(face)}})

\* Variant: the path of the quad is not closed.
drawFaceOpenPath(face, fov, center) ==
  IF isDropped(face) THEN <<>>
  ELSE Value({<< Cmd("fillStyle", <<face.color>>),
            Cmd("strokeStyle", <<"#000">>),
            Cmd("lineWidth", <<1>>),
            Cmd("beginPath", <<>>),
            Cmd("moveTo", <<q.p1Top.x, q.p1Top.y>>),
            Cmd("lineTo", <<q.p2Top.x, q.p2Top.y>>),
            Cmd("lineTo", <<q.p2Bottom.x, q.p2Bottom.y>>),
            Cmd("lineTo", <<q.p1Bottom.x, q.p1Bottom.y>>),
            Cmd("fill", <<>>),
            Cmd("stroke", <<>>) >> :
         q \in {projectFace(face, fov, center)}})

\* drawFace: the context commands it issues for one face of the sorted array.
drawFace(face, fov, center) ==
  IF isDropped(face) THEN <<>>
  ELSE Value({<< Cmd("fillStyle", <<face.color>>),
            Cmd("strokeStyle", <<"#000">>),
            Cmd("lineWidth", <<1>>),
            Cmd("beginPath", <<>>),
            Cmd("moveTo", <<q.p1Top.x, q.p1Top.y>>),
            Cmd("lineTo", <<q.p2Top.x, q.p2Top.y>>),
            Cmd("lineTo", <<q.p2Bottom.x, q.p2Bottom.y>>),
            Cmd("lineTo", <<q.p1Bottom.x, q.p1Bottom.y>>),
            Cmd("closePath", <<>>),
            Cmd("fill", <<>>),
            Cmd("stroke", <<>>) >> :
         q \in {projectFace(face, fov, center)}})

\* The loop of render over the sorted array faces[from..] .
RECURSIVE drawFaces(_, _, _, _)
drawFaces(faces, fov, center, from) ==
  IF from > Len(faces) THEN <<>>
  ELSE drawFace(faces[from], fov, center) \o drawFaces(faces, fov, center, from + 1)

\* Variant: the background is painted after the faces.
renderFacesFirst(c, sc, cam, w, h) ==
  Value({
    (LET center == Vector2(RDiv(w, R(2)), RDiv(h, R(2)))
     IN  [ctx |-> Run(c, drawFaces(sorted, cam.fov, center, 1) \o clear(w, h)),
          faces |-> sorted]) :
    sorted \in {sortFaces(collectFaces(sc, cam, 1))}})

\* render(scene, camera) on a context c of a renderer of size w x h: the
\* context after the call and the sorted array of the frame.
render(c, sc, cam, w, h) ==
  Value({
    (LET center == Vector2(RDiv(w, R(2)), RDiv(h, R(2)))
     IN  [ctx |-> Run(c, clear(w, h) \o drawFaces(sorted, cam.fov, center, 1)),
          faces |-> sorted]) :
    sorted \in {sortFaces(collectFaces(sc, cam, 1))}})

\* Variant: the world transform is written back into the face endpoints.
meshTransformedInPlace(mesh, cam) ==
  [mesh EXCEPT !.faces =
     [i \in 1..Len(mesh.faces) |->
        [mesh.faces[i] EXCEPT !.p1 = transformPointToWorld(mesh.faces[i].p1, mesh),
                              !.p2 = transformPointToWorld(mesh.faces[i].p2, mesh)]]]

\* render only reads the meshes and the camera: the values they hold after
\* the call.
meshAfterRender(mesh, cam) == mesh

cameraAfterRender(sc, cam) == cam

(***************************************************************************)
(* core/Entity.ts and core/EntityManager.ts.  An entity is an object; the  *)
(* manager's lists hold references, modelled as indices into the sequence  *)
(* of the entity objects created so far.  A manager is the record of its   *)
(* three fields.  The calls a manager operation makes on entities are      *)
(* returned as a list of <<method, entity>> pairs in call order.           *)
(***************************************************************************)
\* An entity as the test suite's MockEntity builds it, of a given class, at
\* depth position.z, with or without a destroy method.
Entity(class, depth, cleanup) ==
  [position |-> V3(0, 0, depth), destroyed |-> FALSE, destroyable |-> cleanup,
   type |-> class]

isDestroyable(entity) == entity.destroyable

NewManager == [entities |-> <<>>, toAdd |-> <<>>, toRemove |-> {}]

\* Array.prototype.filter with a predicate given as the set of kept values.
Filter(list, kept) == SelectSeq(list, LAMBDA e : e \in kept)

\* The destroy() calls made while filtering: one for each dropped entity
\* that is destroyable, in list order.
DestroyCalls(list, objs, dropped) ==
  LET gone == SelectSeq(list, LAMBDA e : e \in dropped /\ isDestroyable(objs[e]))
  IN  [k \in 1..Len(gone) |-> <<"destroy", gone[k]>>]

\* Variant: the entity joins the active list at once.
EntityManager_addAtOnce(m, entity) == [m EXCEPT !.entities = Append(@, entity)]

\* add pushes to toAdd (and returns its argument).
EntityManager_add(m, entity) == [m EXCEPT !.toAdd = Append(@, entity)]

\* Variant: the entity leaves the active list at once.
EntityManager_removeAtOnce(m, entity) ==
  [m EXCEPT !.entities = SelectSeq(@, LAMBDA e : e # entity)]

\* remove pushes to toRemove.
EntityManager_remove(m, entity) == [m EXCEPT !.toRemove = @ \cup {entity}]

\* getAll without a type returns the active list itself.
EntityManager_getAll(m) == m.entities

\* getAll(type): the active entities that are instances of the class.
EntityManager_getAllOf(m, objs, class) ==
  SelectSeq(m.entities, LAMBDA e : objs[e].type = class)

EntityManager_getFirst(m, objs, class) ==
  IF EntityManager_getAllOf(m, objs, class) = <<>> THEN Undefined
  ELSE Head(EntityManager_getAllOf(m, objs, class))

EntityManager_count(m) == Len(m.entities)

\* update, step 1: the pending entities are pushed to the active list.
addPending(m) ==
  IF Len(m.toAdd) > 0 THEN [m EXCEPT !.entities = @ \o m.toAdd, !.toAdd = <<>>]
  ELSE m

\* update, step 2: the entities queued for removal are filtered out.
removePending(m) ==
  IF m.toRemove # {}
  THEN [m EXCEPT !.entities = Filter(@, {e \in Range(@) : e \notin m.toRemove}),
                 !.toRemove = {}]
  ELSE m

\* Variant: the destroyed flag is not looked at and every entity is kept.
sweepNone(list, objs) == list

\* update, step 4: the entities whose destroyed flag is set are filtered out.
sweep(list, objs) == Filter(list, {e \in Range(list) : ~objs[e].destroyed})

\* update(dt).  The entities' own update methods are code of the game: in
\* the model the entities in dying set their destroyed flag in their update,
\* and the first updated entity creates the entity in the list spawn, if
\* any, and hands it to add, and hands the entity in the list removing, if
\* any, to remove.  The loop runs over the list as step 2 left it.
EntityManager_update(m, objs, dying, spawn, removing) ==
  Value({
    Value({
      Value({
        [manager |-> Value({
                       Value({[removing_ EXCEPT !.entities = sweep(@, marked)]
                         : removing_ \in {IF removing # <<>> /\ removed.entities # <<>>
                                          THEN EntityManager_remove(spawning, removing[1])
                                          ELSE spawning} })
                       : spawning \in {IF spawn # <<>> /\ removed.entities # <<>>
                                       THEN EntityManager_add(removed, Len(objs) + 1)
                                       ELSE removed} }),
         objects |-> IF spawn # <<>> /\ removed.entities # <<>>
                     THEN marked \o spawn ELSE marked,
         trace   |-> DestroyCalls(added.entities, objs, added.toRemove)
                     \o [k \in 1..Len(removed.entities) |->
                           <<"update", removed.entities[k]>>]
                     \o DestroyCalls(removed.entities, marked,
                                     {e \in Range(removed.entities) : marked[e].destroyed})]
        : marked \in {[e \in 1..Len(objs) |->
                         IF e \in dying /\ e \in Range(removed.entities)
                         THEN [objs[e] EXCEPT !.destroyed = TRUE] ELSE objs[e]]} })
      : removed \in {removePending(added)} })
    : added \in {addPending(m)} })

\* The comparator given to sort in render.
compareEntities(a, b) == RSub(b.position.z, a.position.z)

\* [...entities].sort(compare): the place of the i-th entity in the sorted
\* copy.  The sort is stable: an entity goes after those the comparator puts
\* before it and after the earlier ones it ties with.
sortedPlace(list, objs, i) ==
  1 + Cardinality({j \in 1..Len(list) :
        \/ RLt(compareEntities(objs[list[j]], objs[list[i]]), R(0))
        \/ j < i /\ compareEntities(objs[list[j]], objs[list[i]]) = R(0)})

sortedCopy(list, objs) ==
  [k \in 1..Len(list) |-> list[CHOOSE i \in 1..Len(list) : sortedPlace(list, objs, i) = k]]

\* Variant: the active list itself is sorted, as Array.prototype.sort does
\* without the copy.
EntityManager_renderInPlace(m, objs) ==
  Value({ [manager |-> [m EXCEPT !.entities = sorted],
           trace   |-> [k \in 1..Len(sorted) |-> <<"render", sorted[k]>>]]
          : sorted \in {sortedCopy(m.entities, objs)} })

\* render(ctx): every entity of a sorted copy is rendered.
EntityManager_render(m, objs) ==
  Value({ [manager |-> m,
           trace   |-> [k \in 1..Len(sorted) |-> <<"render", sorted[k]>>]]
          : sorted \in {sortedCopy(m.entities, objs)} })

\* Variant: the pending additions survive the clear.
EntityManager_clearActive(m, objs) ==
  [manager |-> [entities |-> <<>>, toAdd |-> m.toAdd, toRemove |-> {}],
   trace   |-> DestroyCalls(m.entities, objs, Range(m.entities))]

\* clear(): destroy() on every destroyable active entity, then all three
\* collections are emptied.
EntityManager_clear(m, objs) ==
  [manager |-> [entities |-> <<>>, toAdd |-> <<>>, toRemove |-> {}],
   trace   |-> DestroyCalls(m.entities, objs, Range(m.entities))]

(***************************************************************************)
(* input/InputManager.ts.  The manager is the record of its keyboard,      *)
(* pointer and touch fields; a field that is null or a position holds the  *)
(* empty list or the list of that position.  The listeners the manager     *)
(* has on window are the set of the event types it listens to: an event    *)
(* of a type reaches its handler when the type is in that set.             *)
(***************************************************************************)
NewInputManager ==
  [keysDown |-> {}, keysPressed |-> {}, keysReleased |-> {},
   pointerPosition |-> <<>>, pointerDown |-> FALSE, pointerPressed |-> FALSE,
   pointerReleased |-> FALSE, touches |-> <<>>]

KeyboardEvent(key, code) == [key |-> key, code |-> code]

MouseEvent(clientX, clientY, button) ==
  [clientX |-> clientX, clientY |-> clientY, button |-> button]

\* attach(): the event types a new manager listens to.
attach ==
  {"keydown", "keyup", "mousemove", "mousedown", "mouseup",
   "touchstart", "touchmove", "touchend", "touchcancel"}

\* Variant: the listener for keydown is left on window.
destroyKeepKeyDown(listeners) == listeners \ (attach \ {"keydown"})

\* destroy(): every listener is removed.
destroy(listeners) == listeners \ attach

isKeyDown(im, key) == key \in im.keysDown

isKeyPressed(im, key) == key \in im.keysPressed

isKeyReleased(im, key) == key \in im.keysReleased

\* The getter clones the position: the value is the same.
pointerPosition(im) == im.pointerPosition

isPointerDown(im) == im.pointerDown

isPointerPressed(im) == im.pointerPressed

isPointerReleased(im) == im.pointerReleased

endFrame(im) ==
  [im EXCEPT !.keysPressed = {}, !.keysReleased = {},
             !.pointerPressed = FALSE, !.pointerReleased = FALSE]

\* Variant: every keydown event counts as a press, repeats of a held key
\* included.
handleKeyDownRepeat(im, e) ==
  [im EXCEPT !.keysDown = @ \cup {e.code}, !.keysPressed = @ \cup {e.code}]

handleKeyDown(im, e) ==
  [im EXCEPT !.keysDown = @ \cup {e.code},
             !.keysPressed = IF e.code \notin im.keysDown THEN @ \cup {e.code} ELSE @]

handleKeyUp(im, e) ==
  [im EXCEPT !.keysDown = @ \ {e.code},
             !.keysReleased = IF e.code \in im.keysDown THEN @ \cup {e.code} ELSE @]

handleMouseMove(im, e) ==
  [im EXCEPT !.pointerPosition = <<Vector2(e.clientX, e.clientY)>>]

handleMouseDown(im, e) ==
  IF e.button = 0
  THEN [im EXCEPT !.pointerPosition = <<Vector2(e.clientX, e.clientY)>>,
                  !.pointerDown = TRUE, !.pointerPressed = TRUE]
  ELSE im

handleMouseUp(im, e) ==
  IF e.button = 0
  THEN [im EXCEPT !.pointerDown = FALSE, !.pointerReleased = TRUE]
  ELSE im

\* updateTouches: touchList is the list of the positions of the touches.
updateTouches(im, touchList) ==
  [im EXCEPT !.pointerPosition = IF Len(touchList) > 0 THEN <<touchList[1]>> ELSE @,
             !.touches = touchList]

handleTouchStart(im, touchList) ==
  IF Len(touchList) > 0
  THEN [updateTouches(im, touchList) EXCEPT !.pointerDown = TRUE, !.pointerPressed = TRUE]
  ELSE updateTouches(im, touchList)

handleTouchMove(im, touchList) == updateTouches(im, touchList)

handleTouchEnd(im, touchList) ==
  IF Len(touchList) = 0
  THEN [updateTouches(im, touchList) EXCEPT
          !.pointerPosition = <<>>, !.pointerDown = FALSE, !.pointerReleased = TRUE]
  ELSE updateTouches(im, touchList)

(***************************************************************************)
(* entities/Paddle.ts, entities/Brick.ts and ArkanoidGame.ts.  The flight  *)
(* of the ball (Ball.move, the wall, paddle and brick collisions) is not   *)
(* computed: what it comes to in one update, the ball staying in play      *)
(* without a hit, falling below the screen, or hitting one brick that is   *)
(* alive, is an input of update.                                           *)
(***************************************************************************)
\* new Paddle(x, y): width 100, height 14, speed 800.
Paddle(x, y) ==
  [width |-> R(100), height |-> R(14), position |-> Vector3(x, y, R(1)),
   speed |-> R(800), targetX |-> x, screenWidth |-> R(800)]

Paddle_clamp(p) ==
  Value({ [p EXCEPT !.position.x = RMax(halfWidth, RMin(RSub(p.screenWidth, halfWidth), @))]
          : halfWidth \in {RDiv(p.width, R(2))} })

\* move(direction, dt, screenWidth)
Paddle_move(p, direction, dt, screenWidth_) ==
  Value({ [moved EXCEPT !.targetX = moved.position.x]
          : moved \in {Paddle_clamp([p EXCEPT
                         !.position.x = RAdd(@, RMul(RMul(direction, p.speed), dt)),
                         !.screenWidth = screenWidth_])} })

Paddle_setTarget(p, x) == [p EXCEPT !.targetX = x]

Paddle_setScreenWidth(p, w) == [p EXCEPT !.screenWidth = w]

\* update(dt): the paddle closes in on its target.
Paddle_update(p, dt) ==
  Paddle_clamp([p EXCEPT !.position.x =
    RAdd(@, RMul(RSub(p.targetX, @), RMin(R(1), RMul(dt, R(15)))))])

\* new Brick(x, y, width, height)
Brick(x, y, w, h) ==
  [width |-> w, height |-> h, position |-> Vector3(x, y, R(1)), destroyed |-> FALSE]

Brick_alive(brick) == ~brick.destroyed

Brick_hit(brick) == [brick EXCEPT !.destroyed = TRUE]

\* createBrickGrid(screenWidth, rows, cols, topOffset, padding), row by row.
createBrickGrid(screenWidth_, rows, cols, topOffset, padding) ==
  LET brickWidth == RDiv(RSub(screenWidth_, RMul(padding, R(cols + 1))), R(cols))
      brickHeight == R(24)
  IN  [k \in 1..(rows * cols) |->
         Brick(RAdd(padding, RMul(R((k - 1) % cols), RAdd(brickWidth, padding))),
               RAdd(topOffset, RMul(R((k - 1) \div cols), RAdd(brickHeight, padding))),
               brickWidth, brickHeight)]

\* ArkanoidGame: the fields the class adds to Game.  The ball is not part of
\* the record: what its flight did in an update is an input of that update.
BrickCols == 2

\* resetLevel(): a new brick grid (of one row of BrickCols bricks here, of
\* 5 rows of 8 in the game), a new ball, state 'playing'.
ArkanoidGame_resetLevel(a, screenWidth_) ==
  [a EXCEPT !.bricks = createBrickGrid(screenWidth_, 1, BrickCols, R(60), R(8)),
            !.state = "playing"]

NewArkanoidGame(screenWidth_, screenHeight) ==
  ArkanoidGame_resetLevel(
    [bricks |-> <<>>, state |-> "playing",
     paddle |-> Paddle(RDiv(screenWidth_, R(2)), RSub(screenHeight, R(40))),
     lives |-> 3, score |-> 0],
    screenWidth_)

\* The outcomes of the ball's flight in one update: -1, it fell below the
\* screen; 0, it flies on (or bounces off a wall or the paddle), and met is
\* the set of the bricks, destroyed or not, whose expanded bounds the ray
\* of its movement hits.
Outcomes(a) == {<<-1, {}>>} \cup {<<0, met>> : met \in SUBSET DOMAIN a.bricks}

\* Variant: the loop does not skip the destroyed bricks.
RECURSIVE hitBricksAgain(_, _, _)
hitBricksAgain(a, met, i) ==
  IF i > Len(a.bricks) THEN a
  ELSE IF i \in met
       THEN [a EXCEPT !.bricks[i] = Brick_hit(@), !.score = @ + 10]
       ELSE hitBricksAgain(a, met, i + 1)

\* The loop over the bricks, from brick i on: a destroyed brick is skipped,
\* the first other brick the ray hits is hit and scores 10, and the loop
\* ends there.
RECURSIVE hitBricks(_, _, _)
hitBricks(a, met, i) ==
  IF i > Len(a.bricks) THEN a
  ELSE IF ~Brick_alive(a.bricks[i]) THEN hitBricks(a, met, i + 1)
  ELSE IF i \in met
       THEN [a EXCEPT !.bricks[i] = Brick_hit(@), !.score = @ + 10]
       ELSE hitBricks(a, met, i + 1)

\* Variant: a ball below the screen ends the game whatever lives are left.
ArkanoidGame_handleCollisionsSuddenDeath(a, outcome, met) ==
  IF outcome = -1 THEN [a EXCEPT !.lives = @ - 1, !.state = "lost"]
  ELSE hitBricks(a, met, 1)

\* handleCollisions: a ball below the screen costs a life, and the game when
\* none is left, and returns; else the loop over the bricks runs.
ArkanoidGame_handleCollisions(a, outcome, met) ==
  IF outcome = -1
  THEN [a EXCEPT !.lives = @ - 1, !.state = IF a.lives - 1 <= 0 THEN "lost" ELSE @]
  ELSE hitBricks(a, met, 1)

ArkanoidGame_checkWinCondition(a) ==
  IF \A i \in DOMAIN a.bricks : ~Brick_alive(a.bricks[i])
  THEN [a EXCEPT !.state = "won"]
  ELSE a

\* The paddle part of update: keyboard, then pointer, then the paddle's own
\* update.
ArkanoidGame_movePaddle(p, im, dt, screenWidth_) ==
  LET left == IF isKeyDown(im, "ArrowLeft") \/ isKeyDown(im, "a")
              THEN Paddle_move(p, R(-1), dt, screenWidth_) ELSE p
      right == IF isKeyDown(im, "ArrowRight") \/ isKeyDown(im, "d")
               THEN Paddle_move(left, R(1), dt, screenWidth_) ELSE left
      pointer == pointerPosition(im)
      aimed == IF pointer # <<>> THEN Paddle_setTarget(right, pointer[1].x) ELSE right
  IN  Paddle_update(Paddle_setScreenWidth(aimed, screenWidth_), dt)

\* update(dt).
ArkanoidGame_update(a, im, dt, screenWidth_, outcome, met) ==
  IF a.state \in {"won", "lost"} /\ isPointerPressed(im)
  THEN ArkanoidGame_resetLevel([a EXCEPT !.lives = 3, !.score = 0], screenWidth_)
  ELSE IF a.state # "playing" THEN a
  ELSE ArkanoidGame_checkWinCondition(
         ArkanoidGame_handleCollisions(
           [a EXCEPT !.paddle = ArkanoidGame_movePaddle(@, im, dt, screenWidth_)],
           outcome, met))

(***************************************************************************)
(* Game.ts and core/Scene.ts.  The Game is the record of its scene (the    *)
(* empty list for null, else the list of the scene's index), lastTime,     *)
(* running and paused, with the number of animation frames it has          *)
(* requested that have not run yet, whether window has its resize          *)
(* listener, and the size of the window, which the getters width and       *)
(* height read; times are milliseconds.  A scene is the record of             *)
(* its game reference (the empty list until _setGame, then <<0>>), its     *)
(* entity manager and a flag its hooks keep: set by onEnter, reset by      *)
(* onExit.  The operators act on the record of the game, the scenes and    *)
(* the log of the calls made to the scenes and to the Game subclass, each  *)
(* call with its receiver (0 for the game) and what it was given: the      *)
(* delta time of an update, the game reference a scene hook found.         *)
(***************************************************************************)
NewScene == [game |-> <<>>, entities |-> NewManager, entered |-> FALSE]

Invoke(name, on, arg) == [on |-> on, arg |-> arg, call |-> name]

Scene_setGame(w, s) == [w EXCEPT !.scenes[s].game = <<0>>]

Scene_onEnter(w, s) ==
  [w EXCEPT !.scenes[s].entered = TRUE,
            !.log = Append(@, Invoke("onEnter", s, w.scenes[s].game))]

\* onExit clears the scene's entities.
Scene_onExit(w, s) ==
  [w EXCEPT !.scenes[s].entities = EntityManager_clear(@, <<>>).manager,
            !.scenes[s].entered = FALSE,
            !.log = Append(@, Invoke("onExit", s, w.scenes[s].game))]

Scene_onPause(w, s) == [w EXCEPT !.log = Append(@, Invoke("onPause", s, w.scenes[s].game))]

Scene_onResume(w, s) == [w EXCEPT !.log = Append(@, Invoke("onResume", s, w.scenes[s].game))]

MaxScenes == 2

SceneIds == 1..MaxScenes

NewScenes == [s \in SceneIds |-> NewScene]

\* start(), with the value of performance.now().
Game_start(g, t) ==
  [g EXCEPT !.lastTime = t, !.running = TRUE, !.requested = @ + 1]

\* The constructor adds the resize listener and ends with start().
NewGame(t) ==
  Game_start([scene |-> <<>>, lastTime |-> 0, running |-> FALSE, requested |-> 0,
              paused |-> FALSE, resizeBound |-> TRUE, window |-> <<800, 600>>], t)

\* Variant: the new scene is entered before the old one is left.
Game_setSceneEnterFirst(w, s) ==
  LET entered_ == Scene_onEnter(Scene_setGame(w, s), s)
      exited == IF w.game.scene # <<>> THEN Scene_onExit(entered_, w.game.scene[1])
                ELSE entered_
  IN  [exited EXCEPT !.game.scene = <<s>>]

Game_setScene(w, s) ==
  LET exited == IF w.game.scene # <<>> THEN Scene_onExit(w, w.game.scene[1]) ELSE w
  IN  Scene_onEnter(Scene_setGame([exited EXCEPT !.game.scene = <<s>>], s), s)

\* Variant: pause() notifies the scene whether or not the game was running.
Game_pauseAlways(w) ==
  LET p == [w EXCEPT !.game.paused = TRUE]
  IN  IF p.game.scene # <<>> THEN Scene_onPause(p, p.game.scene[1]) ELSE p

Game_pause(w) ==
  IF ~w.game.paused
  THEN LET p == [w EXCEPT !.game.paused = TRUE]
       IN  IF p.game.scene # <<>> THEN Scene_onPause(p, p.game.scene[1]) ELSE p
  ELSE w

\* resume(), with the value of performance.now().
Game_resume(w, t) ==
  IF w.game.paused
  THEN LET r == [w EXCEPT !.game.paused = FALSE, !.game.lastTime = t]
       IN  IF r.game.scene # <<>> THEN Scene_onResume(r, r.game.scene[1]) ELSE r
  ELSE w

Game_togglePause(w, t) == IF w.game.paused THEN Game_resume(w, t) ELSE Game_pause(w)

\* stop(), but for input.destroy() and the DOM.
Game_stop(w) ==
  LET stopped == [w EXCEPT !.game.running = FALSE]
      exited == IF w.game.scene # <<>> THEN Scene_onExit(stopped, w.game.scene[1])
                ELSE stopped
  IN  [exited EXCEPT !.game.scene = <<>>, !.game.resizeBound = FALSE]

\* Variant: the delta time is the whole gap.
deltaTimeUncapped(currentTime, lastTime) == RDiv(R(currentTime - lastTime), R(1000))

\* The delta time of loop(currentTime), in seconds.
deltaTime(currentTime, lastTime) ==
  RMin(RDiv(R(currentTime - lastTime), R(1000)), <<1, 10>>)

\* The receiver of the loop's update and render: the scene, else the game.
Receiver(g) == IF g.scene # <<>> THEN g.scene[1] ELSE 0

\* The update part of loop(currentTime): nothing while paused.
Game_loopUpdate(w, currentTime) ==
  IF ~w.game.paused
  THEN [w EXCEPT !.game.lastTime = currentTime,
                 !.log = Append(@, Invoke("update", Receiver(w.game),
                                        deltaTime(currentTime, w.game.lastTime)))]
  ELSE w

\* The render part of loop.
Game_loopRender(w) == [w EXCEPT !.log = Append(@, Invoke("render", Receiver(w.game), <<>>))]

\* The end of loop: input.endFrame().
Game_loopEndFrame(w) == [w EXCEPT !.log = Append(@, Invoke("endFrame", 0, <<>>))]

\* The callback of a requested animation frame starts to run.
Game_loopFired(w) == [w EXCEPT !.game.requested = @ - 1]

\* The end of loop: requestAnimationFrame.
Game_loopRequest(w) == [w EXCEPT !.game.requested = @ + 1]

\* Variant: a paused game skips endFrame with update.
Game_loopEndFrameUnlessPaused(w, currentTime) ==
  IF ~w.game.running THEN Game_loopFired(w)
  ELSE IF w.game.paused THEN Game_loopRequest(Game_loopRender(Game_loopFired(w)))
  ELSE Game_loopRequest(Game_loopEndFrame(Game_loopRender(
         Game_loopUpdate(Game_loopFired(w), currentTime))))

\* Variant: the loop does not look at running.
Game_loopUnchecked(w, currentTime) ==
  Game_loopRequest(Game_loopEndFrame(Game_loopRender(
    Game_loopUpdate(Game_loopFired(w), currentTime))))

\* loop(currentTime), but for the effect of endFrame on the input manager;
\* update and render of a scene or of the game itself only count as calls.
Game_loop(w, currentTime) ==
  IF ~w.game.running THEN Game_loopFired(w)
  ELSE Game_loopRequest(Game_loopEndFrame(Game_loopRender(
         Game_loopUpdate(Game_loopFired(w), currentTime))))

\* The input manager as the k-th call of a log finds it, and as the log
\* leaves it: endFrame is the only call of the loop that changes it.
inputBefore(log, im, k) ==
  IF \E j \in 1..(k - 1) : log[j].call = "endFrame" THEN endFrame(im) ELSE im

inputAfter(log, im) == inputBefore(log, im, Len(log) + 1)

\* SimpleDoomGame.update, its last statement: the size the renderer holds
\* after it, given the size <<w, h>> it held.
SimpleDoomGame_updateSize(g, w, h) ==
  IF g.window[1] # w \/ g.window[2] # h THEN g.window ELSE <<w, h>>

\* SimpleDoomGame.render, but for the drawing: Escape pauses a game that is
\* not paused.
SimpleDoomGame_render(w, im) ==
  IF isKeyPressed(im, "Escape") /\ ~w.game.paused THEN Game_pause(w) ELSE w

\* ArkanoidGame.render: Escape toggles the pause while playing or paused.
ArkanoidGame_render(w, a, im, t) ==
  IF isKeyPressed(im, "Escape") /\ (a.state = "playing" \/ w.game.paused)
  THEN Game_togglePause(w, t)
  ELSE w

(***************************************************************************)
(* GameLauncher.ts.  The launcher is the record of its fields currentGame  *)
(* (the empty list for null, else the list of the game's type), running,   *)
(* hoveredIndex and selectedIndex, with the number of animation frames it  *)
(* has requested for selectorLoop that have not run yet and whether its    *)
(* input manager is attached.  The operators act on the record of the      *)
(* launcher, the Game object and the log of the calls made, each call with *)
(* the value of currentGame it found.                                      *)
(***************************************************************************)
GAMES == <<"arkanoid", "cosmic", "doom">>

LauncherCall(w, name) ==
  [w EXCEPT !.log = Append(@, Invoke(name, 0, w.launcher.currentGame))]

\* launchGame(type), with the value of performance.now() the new game
\* starts at.
GameLauncher_launchGame(w, type, t) ==
  [LauncherCall(w, "launchGame") EXCEPT !.launcher.attached = FALSE,
                                        !.launcher.currentGame = <<type>>,
                                        !.game = NewGame(t)]

\* handleSelectorInput(); pressed is the set of the keys isKeyPressed
\* reports, each of ArrowUp, ArrowDown and Enter standing for itself and
\* its alternative.
GameLauncher_handleSelectorInput(w, pressed, t) ==
  LET called == LauncherCall(w, "handleSelectorInput")
      up == IF "ArrowUp" \in pressed
            THEN [called EXCEPT !.launcher.selectedIndex = (@ - 1 + Len(GAMES)) % Len(GAMES)]
            ELSE called
      down == IF "ArrowDown" \in pressed
              THEN [up EXCEPT !.launcher.selectedIndex = (@ + 1) % Len(GAMES)]
              ELSE up
  IN  IF "Enter" \in pressed
      THEN GameLauncher_launchGame(down, GAMES[down.launcher.selectedIndex + 1], t)
      ELSE down

\* selectorLoop(): input, render, endFrame, and the next frame is requested.
GameLauncher_selectorLoop(w, pressed, t) ==
  IF ~w.launcher.running \/ w.launcher.currentGame # <<>> THEN w
  ELSE [LauncherCall(LauncherCall(GameLauncher_handleSelectorInput(w, pressed, t),
                                  "renderSelector"), "endFrame")
          EXCEPT !.launcher.requested = @ + 1]

\* onMouseMove: the pointer is over card i, or over none (-1).
GameLauncher_onMouseMove(w, i) ==
  IF i >= 0 THEN [w EXCEPT !.launcher.hoveredIndex = i, !.launcher.selectedIndex = i]
  ELSE [w EXCEPT !.launcher.hoveredIndex = -1]

GameLauncher_onClick(w, t) ==
  IF w.launcher.hoveredIndex >= 0
  THEN GameLauncher_launchGame(w, GAMES[w.launcher.hoveredIndex + 1], t)
  ELSE w

\* returnToMenu(): the game is stopped, a new input manager is made, which
\* reports no key, and selectorLoop is called.
GameLauncher_returnToMenu(w, t) ==
  LET stopped == IF w.launcher.currentGame # <<>>
                 THEN [w EXCEPT !.game = Game_stop([game |-> w.game, scenes |-> NewScenes,
                                                    log |-> <<>>]).game,
                                !.launcher.currentGame = <<>>]
                 ELSE w
  IN  GameLauncher_selectorLoop([LauncherCall(stopped, "returnToMenu")
                                   EXCEPT !.launcher.attached = TRUE], {}, t)

\* The constructor ends with selectorLoop().
NewGameLauncher ==
  GameLauncher_selectorLoop(
    [game |-> NewGame(0),
     launcher |-> [running |-> TRUE, requested |-> 0, currentGame |-> <<>>,
                   attached |-> TRUE, selectedIndex |-> 0, hoveredIndex |-> -1],
     log |-> <<>>], {}, 0).launcher

(***************************************************************************)
(* utils/math.ts, rayIntersectsBoundingBox.  The function computes with    *)
(* Infinity, so its numbers are the rationals and three more values; the   *)
(* operators below are the IEEE 754 ones on these.                         *)
(***************************************************************************)
PosInf == <<1, 0>>

NegInf == <<-1, 0>>

NaN == <<0, 0>>

Sign(a) == IF a[1] > 0 THEN 1 ELSE IF a[1] < 0 THEN -1 ELSE 0

\* a * b: 0 * Infinity is NaN.
XMul(a, b) ==
  IF a = NaN \/ b = NaN THEN NaN
  ELSE IF IsFinite(a) /\ IsFinite(b) THEN RMul(a, b)
  ELSE IF Sign(a) * Sign(b) = 0 THEN NaN
  ELSE <<Sign(a) * Sign(b), 0>>

\* a + b with b finite.
XAdd(a, b) == IF IsFinite(a) THEN RAdd(a, b) ELSE a

\* a < b: false if either is NaN.
XLt(a, b) ==
  /\ a # NaN /\ b # NaN
  /\ IF IsFinite(a) /\ IsFinite(b) THEN RLt(a, b)
     ELSE IF IsFinite(a) THEN b = PosInf
     ELSE IF IsFinite(b) THEN a = NegInf
     ELSE a = NegInf /\ b = PosInf

\* Math.min and Math.max: NaN if either is NaN.
XMin(a, b) == IF a = NaN \/ b = NaN THEN NaN ELSE IF XLt(b, a) THEN b ELSE a

XMax(a, b) == IF a = NaN \/ b = NaN THEN NaN ELSE IF XLt(a, b) THEN b ELSE a

BoundingBox(x, y, w, h) == [width |-> w, height |-> h, x |-> x, y |-> y]

\* rayDirection.x !== 0 ? 1 / rayDirection.x : Infinity
inverseDirection(d) == IF d # R(0) THEN RDiv(R(1), d) ELSE PosInf

\* The slab of one axis: the times of entry and exit of a ray from origin o
\* with direction d into the interval from lo to lo + size.
Slab(o, d, lo, size) ==
  Value({ [enter |-> XMin(ts[1], ts[2]), exit |-> XMax(ts[1], ts[2])] :
          ts \in {<<XMul(RSub(lo, o), inverseDirection(d)),
                    XMul(RSub(RAdd(lo, size), o), inverseDirection(d))>>} })

\* The contact time: the entry, or the exit if the ray started inside.
contactTime(timeEnterBox, timeExitBox) ==
  IF XLt(timeEnterBox, R(0)) THEN timeExitBox ELSE timeEnterBox

\* The hit once the box is known to be reached: null (the empty list) if
\* the contact is beyond the ray.
RaycastHit(rayOrigin, rayDirection, sx, sy, t) ==
  IF XLt(R(1), t) THEN <<>>
  ELSE <<[contactTime |-> t,
          contactPoint |-> Vector2(XAdd(XMul(rayDirection.x, t), rayOrigin.x),
                                   XAdd(XMul(rayDirection.y, t), rayOrigin.y)),
          contactNormal |->
            IF XLt(sy.enter, sx.enter)
            THEN Vector2(IF RLt(R(0), rayDirection.x) THEN R(-1) ELSE R(1), R(0))
            ELSE Vector2(R(0), IF RLt(R(0), rayDirection.y) THEN R(-1) ELSE R(1))]>>

rayIntersectsBoundingBox(rayOrigin, rayDirection, box) ==
  Value({ Value({ IF \/ XLt(times[2], R(0))
                     \/ XLt(times[2], times[1])
                     \/ XLt(R(1), times[1])
                  THEN <<>>
                  ELSE RaycastHit(rayOrigin, rayDirection, s[1], s[2],
                                  contactTime(times[1], times[2])) :
                  times \in {<<XMax(s[1].enter, s[2].enter), XMin(s[1].exit, s[2].exit)>>} }) :
          s \in {<<Slab(rayOrigin.x, rayDirection.x, box.x, box.width),
                   Slab(rayOrigin.y, rayDirection.y, box.y, box.height)>>} })

(***************************************************************************)
(***************************************************************************)
(* The inputs of the model: wall segments as a level producer supplies     *)
(* them, wrapped into meshes with addFace, and the surface sizes.          *)
(***************************************************************************)
\* A wall crossing the viewer plane: depths -100 and 100 seen from the origin.
WallA == [p1 |-> V3(-10, 0, -100), p2 |-> V3(10, 0, 100), color |-> "#4b0082"]

\* An object in front of the viewer at depth 50.
ObjB == [p1 |-> V3(-5, 0, 50), p2 |-> V3(5, 0, 50), color |-> "#00ffff"]

\* A zero-width face.
ZeroD == [p1 |-> V3(0, 0, 30), p2 |-> V3(0, 0, 30), color |-> "#ffaa00"]

\* A slanted wall whose far end is at depth 50, as ObjB; seen from depth 40
\* its endpoints are at view depths -10 and 10.
SlantE == [p1 |-> V3(20, 0, 30), p2 |-> V3(30, 0, 50), color |-> "#0088ff"]

\* A wall behind the viewer at the origin.
BehindC == [p1 |-> V3(-5, 0, -20), p2 |-> V3(5, 0, -30), color |-> "#ff00ff"]

Walls == <<
  <<WallA>>,
  <<ObjB, ZeroD>>,
  <<SlantE, BehindC>> >>

RECURSIVE addWalls(_, _)
addWalls(mesh, walls) ==
  IF walls = <<>> THEN mesh
  ELSE addWalls(addFace(mesh, Head(walls).p1, Head(walls).p2, Head(walls).color), Tail(walls))

\* The meshes the game can put into the scene: each wall list at the origin,
\* and the first one also moved and turned by a quarter.
LevelMeshes ==
  { addWalls(Mesh(V3(0, 0, 0)), Walls[k]) : k \in 1..Len(Walls) }
  \cup { [addWalls(Mesh(V3(20, 5, -60)), Walls[1]) EXCEPT !.rotation = 1] }

CamStepX == 30

CamStepZ == 40

CamYaws == {0, 2, Theta}

Sizes == { <<800, 600>>, <<400, 300>> }

NoProj == <<>>

\* No library function has been called yet.
NoResult == <<>>

(***************************************************************************)
(* State machine.  One animation frame is an update step of the game (at   *)
(* most one change of the scene, the camera or the surface size) followed  *)
(* by a render call; a paused game renders again without an update.        *)
(* calls is the log of the context calls of the current frame.             *)
(***************************************************************************)
Init ==
  /\ scene = <<>>
  /\ camera = Camera(V3(0, 0, 0), 0, R(400))
  /\ width = 800
  /\ height = 600
  /\ ctx = [fillStyle |-> NewContext.fillStyle, strokeStyle |-> NewContext.strokeStyle,
            path |-> NewContext.path, lineWidth |-> NewContext.lineWidth]
  /\ calls = <<>>
  /\ transformedFaces = <<>>
  /\ phase = "created"
  /\ proj = NoProj
  /\ result = NoResult
  /\ heap = <<>>
  /\ manager = NewManager
  /\ objects = <<>>
  /\ trace = <<>>
  /\ input = NewInputManager
  /\ listening = attach
  /\ game = NewGame(0)
  /\ arkanoid = NewArkanoidGame(R(width), R(height))
  /\ scenes = NewScenes
  /\ now = 0
  /\ launcher = NewGameLauncher

\* A new frame starts: the log of the previous frame is dropped.  phase is
\* "rendered" after the first render call of a frame and "rerendered" when
\* render was called again with no update in between.
NewFrame ==
  /\ phase # "updated"
  /\ phase' = "updated"
  /\ calls' = <<>>
  /\ transformedFaces' = <<>>
  /\ UNCHANGED <<ctx, callVars, managerVars, gameVars>>

\* The game wraps a wall list into a mesh and pushes it into the scene.
PushMesh(mesh) ==
  /\ Len(scene) < MaxMeshes
  /\ NewFrame
  /\ scene' = Append(scene, mesh)
  /\ UNCHANGED <<camera, width, height>>

\* SimpleDoomGame.update: camera.position.x += ..., camera.position.z += ...
MoveCamera(dx, dz) ==
  LET x == RAdd(camera.position.x, R(dx * CamStepX))
      z == RAdd(camera.position.z, R(dz * CamStepZ))
  IN  /\ RLe(R(0), x) /\ RLe(R(0), z)
      /\ x[1] \div CamStepX + z[1] \div CamStepZ <= MaxCamSteps
      /\ NewFrame
      /\ camera' = [camera EXCEPT !.position.x = x, !.position.z = z]
      /\ UNCHANGED <<scene, width, height>>

\* SimpleDoomGame.update / handleDebugClick: camera.rotation is set.
RotateCamera(angle) ==
  /\ angle # camera.rotation
  /\ NewFrame
  /\ camera' = [camera EXCEPT !.rotation = angle]
  /\ UNCHANGED <<scene, width, height>>

\* Renderer3D.resize
Resize(w, h) ==
  /\ <<w, h>> # <<width, height>>
  /\ NewFrame
  /\ width' = w
  /\ height' = h
  /\ UNCHANGED <<scene, camera>>

\* Renderer3D.render(scene, camera)
Render ==
  \E start \in {[calls |-> <<>>, fillStyle |-> ctx.fillStyle, strokeStyle |-> ctx.strokeStyle,
                 path |-> ctx.path, lineWidth |-> ctx.lineWidth]} :
    \E r \in {render(start, scene, camera, R(width), R(height))} :
      /\ phase' = IF phase \in {"rendered", "rerendered"} THEN "rerendered" ELSE "rendered"
      /\ calls' = r.ctx.calls
      /\ ctx' = [fillStyle |-> r.ctx.fillStyle, strokeStyle |-> r.ctx.strokeStyle,
                 path |-> r.ctx.path, lineWidth |-> r.ctx.lineWidth]
      /\ transformedFaces' = r.faces
      /\ scene' = [i \in 1..Len(scene) |-> meshAfterRender(scene[i], camera)]
      /\ camera' = cameraAfterRender(scene, camera)
      /\ UNCHANGED <<width, height, callVars, managerVars, gameVars>>

Next ==
  \/ \E mesh \in LevelMeshes : PushMesh(mesh)
  \/ \E d \in {<<1, 0>>, <<-1, 0>>, <<0, 1>>, <<0, -1>>} : MoveCamera(d[1], d[2])
  \/ \E angle \in CamYaws : RotateCamera(angle)
  \/ \E s \in Sizes : Resize(s[1], s[2])
  \/ Render

Spec == Init /\ [][Next]_vars

(***************************************************************************)
(* Vector3.project as a pure function: the second specification applies it *)
(* to points of every depth, behind, on and in front of the viewer plane.  *)
(***************************************************************************)
ProjXs == {-7, 0, 100}

ProjYs == {-20, 50}

ProjZs == {R(-5), R(0), <<1, 2000>>, EPSILON_Z, <<1, 2>>, R(1), R(2), R(3), R(50)}

ProjFocals == {1, 400}

ProjCenters == {Vector2(R(0), R(0)), Vector2(R(400), R(300))}

ProjectCall(v, focalLength, screenCenter) ==
  /\ proj' = [v |-> v, focalLength |-> focalLength, screenCenter |-> screenCenter,
              divisor |-> safeZ(v), out |-> project(v, focalLength, screenCenter)]
  /\ UNCHANGED <<rendererVars, result, heap, managerVars, gameVars>>

NextProject ==
  \E x \in ProjXs, y \in ProjYs, z \in ProjZs, f \in ProjFocals, c \in ProjCenters :
    ProjectCall(Vector3(R(x), R(y), z), R(f), c)

SpecProject == Init /\ [][NextProject]_vars

(***************************************************************************)
(* One wall seen by one camera: the third specification builds a level of  *)
(* a single wall, places its mesh and the camera, sizes the surface and    *)
(* renders one frame.                                                      *)
(***************************************************************************)
WallP1s == {V3(-50, 0, 50), V3(-50, 0, -10), V3(-50, 0, 1)}

WallP2s == {V3(50, 0, 50), V3(50, 0, 100)}

WallMeshPositions == {V3(0, 0, 0), V3(10, 0, 20)}

WallMeshRotations == {0, 1}

WallCamPositions == {V3(0, 0, 0), V3(0, 0, 40)}

WallCamYaws == {0, 1, Theta}

\* SimpleDoomGame: the level mesh is built from the wall, the camera is
\* placed, the renderer is resized and renders the frame.
RenderWall(p1, p2, position, rotation, camPosition, yaw, w, h) ==
  \E sc \in {<< [addFace(Mesh(position), p1, p2, "#00ffff") EXCEPT !.rotation = rotation] >>},
     cam \in {Camera(camPosition, yaw, R(400))},
     start \in {[calls |-> <<>>, fillStyle |-> ctx.fillStyle, strokeStyle |-> ctx.strokeStyle,
                 path |-> ctx.path, lineWidth |-> ctx.lineWidth]} :
    \E r \in {render(start, sc, cam, R(w), R(h))} :
      /\ scene' = sc
      /\ camera' = cam
      /\ width' = w
      /\ height' = h
      /\ phase' = "rendered"
      /\ calls' = r.ctx.calls
      /\ ctx' = [fillStyle |-> r.ctx.fillStyle, strokeStyle |-> r.ctx.strokeStyle,
                 path |-> r.ctx.path, lineWidth |-> r.ctx.lineWidth]
      /\ transformedFaces' = r.faces
      /\ UNCHANGED <<callVars, managerVars, gameVars>>

NextWall ==
  \E p1 \in WallP1s, p2 \in WallP2s, position \in WallMeshPositions,
     rotation \in WallMeshRotations, camPosition \in WallCamPositions,
     yaw \in WallCamYaws, s \in Sizes :
    RenderWall(p1, p2, position, rotation, camPosition, yaw, s[1], s[2])

SpecWall == Init /\ [][NextWall]_vars

(***************************************************************************)
(* Mesh.createRoom.  An array read past its end gives undefined, and       *)
(* a || b is b when a is undefined or the empty string.                    *)
(***************************************************************************)
At(array, i) == IF i \in 1..Len(array) THEN array[i] ELSE Undefined

Or(a, b) == IF a = Undefined \/ a = "" THEN b ELSE a

\* Variant: a missing color slot gets the neutral gray.
createRoomGrayFill(roomWidth, roomDepth, wallColors) ==
  LET halfW == RDiv(roomWidth, R(2))
      halfD == RDiv(roomDepth, R(2))
      c1 == Or(At(wallColors, 1), "#888")
      c2 == Or(At(wallColors, 2), "#888")
      c3 == Or(At(wallColors, 3), "#888")
      c4 == Or(At(wallColors, 4), "#888")
      north == addFace(Mesh(V3(0, 0, 0)),
                       Vector3(RNeg(halfW), R(0), RNeg(halfD)),
                       Vector3(halfW, R(0), RNeg(halfD)), c1)
      east == addFace(north, Vector3(halfW, R(0), RNeg(halfD)),
                      Vector3(halfW, R(0), halfD), c2)
      south == addFace(east, Vector3(halfW, R(0), halfD),
                       Vector3(RNeg(halfW), R(0), halfD), c3)
  IN  addFace(south, Vector3(RNeg(halfW), R(0), halfD),
              Vector3(RNeg(halfW), R(0), RNeg(halfD)), c4)

createRoom(roomWidth, roomDepth, wallColors) ==
  LET halfW == RDiv(roomWidth, R(2))
      halfD == RDiv(roomDepth, R(2))
      c1 == Or(At(wallColors, 1), "#888")
      c2 == Or(At(wallColors, 2), c1)
      c3 == Or(At(wallColors, 3), c1)
      c4 == Or(At(wallColors, 4), c1)
      north == addFace(Mesh(V3(0, 0, 0)),
                       Vector3(RNeg(halfW), R(0), RNeg(halfD)),
                       Vector3(halfW, R(0), RNeg(halfD)), c1)
      east == addFace(north, Vector3(halfW, R(0), RNeg(halfD)),
                      Vector3(halfW, R(0), halfD), c2)
      south == addFace(east, Vector3(halfW, R(0), halfD),
                       Vector3(RNeg(halfW), R(0), halfD), c3)
  IN  addFace(south, Vector3(RNeg(halfW), R(0), halfD),
              Vector3(RNeg(halfW), R(0), RNeg(halfD)), c4)

\* The rooms of the fourth specification: every list of at most MaxColors
\* entries, each a color or the empty string.
MaxColors == 5

RoomColors == {"", "#f00", "#0f0"}

RoomWidths == {100, 50}

RoomDepths == {80, 30}

RoomColorLists == UNION {[1..n -> RoomColors] : n \in 0..MaxColors}

\* One call of the static factory on the arguments drawn.
CreateRoom(roomWidth, roomDepth, wallColors) ==
  /\ result = NoResult
  /\ result' = [op |-> "createRoom", args |-> <<roomWidth, roomDepth, wallColors>>,
                out |-> createRoom(roomWidth, roomDepth, wallColors)]
  /\ UNCHANGED <<rendererVars, proj, heap, managerVars, gameVars>>

NextRoom ==
  \E roomWidth \in RoomWidths, roomDepth \in RoomDepths, wallColors \in RoomColorLists :
    CreateRoom(R(roomWidth), R(roomDepth), wallColors)

SpecRoom == Init /\ [][NextRoom]_vars

(***************************************************************************)
(* Vector3 and Vector2 as objects.  heap is the sequence of the vector     *)
(* objects created so far and an object is known by its index in it.  A    *)
(* method is given the heap h and the indices of its receiver and of its   *)
(* vector argument, and gives the heap after the call and the index of the *)
(* object it returns.                                                      *)
(***************************************************************************)
MaxObjects == 3

\* Math.sqrt, on the rationals whose root is rational (up to SqrtMax).
SqrtMax == 200

IsSquare(n) == \E k \in 0..SqrtMax : k * k = n

ISqrt(n) == CHOOSE k \in 0..SqrtMax : k * k = n

HasSqrt(a) == IsFinite(a) /\ a[1] >= 0 /\ IsSquare(a[1]) /\ IsSquare(a[2])

Sqrt(a) == <<ISqrt(a[1]), ISqrt(a[2])>>

\* new Vector3(x, y, z), new Vector2(x, y)
New(h, v) == [heap |-> Append(h, v), out |-> Len(h) + 1]

\* Variant: add accumulates into the receiver and returns it.
Vector3_addInPlace(h, this, v) ==
  [heap |-> [h EXCEPT ![this] = Vector3(RAdd(h[this].x, h[v].x), RAdd(h[this].y, h[v].y),
                                        RAdd(h[this].z, h[v].z))],
   out |-> this]

Vector3_add(h, this, v) ==
  New(h, Vector3(RAdd(h[this].x, h[v].x), RAdd(h[this].y, h[v].y), RAdd(h[this].z, h[v].z)))

Vector3_subtract(h, this, v) ==
  New(h, Vector3(RSub(h[this].x, h[v].x), RSub(h[this].y, h[v].y), RSub(h[this].z, h[v].z)))

Vector3_scale(h, this, scalar) ==
  New(h, Vector3(RMul(h[this].x, scalar), RMul(h[this].y, scalar), RMul(h[this].z, scalar)))

Vector3_magnitudeSquared(h, this) ==
  RAdd(RAdd(RMul(h[this].x, h[this].x), RMul(h[this].y, h[this].y)),
       RMul(h[this].z, h[this].z))

Vector3_magnitude(h, this) == Sqrt(Vector3_magnitudeSquared(h, this))

Vector3_normalize(h, this) ==
  LET mag == Vector3_magnitude(h, this)
  IN  IF mag = R(0) THEN New(h, Vector3(R(0), R(0), R(0)))
      ELSE Vector3_scale(h, this, RDiv(R(1), mag))

Vector3_clone(h, this) == New(h, Vector3(h[this].x, h[this].y, h[this].z))

Vector3_project(h, this, focalLength, screenCenter) ==
  New(h, project(h[this], focalLength, h[screenCenter]))

Vector2_add(h, this, v) ==
  New(h, Vector2(RAdd(h[this].x, h[v].x), RAdd(h[this].y, h[v].y)))

Vector2_scale(h, this, scalar) ==
  New(h, Vector2(RMul(h[this].x, scalar), RMul(h[this].y, scalar)))

Vector2_clone(h, this) == New(h, Vector2(h[this].x, h[this].y))

IsVector3(o) == DOMAIN o = {"x", "y", "z"}

IsVector2(o) == DOMAIN o = {"x", "y"}

\* The vectors constructed and the scalars passed in the fifth specification.
NewVector3s == {V3(0, 0, 0), V3(3, 4, 0), V3(1, 2, 2)}

NewVector2s == {Vector2(R(400), R(300)), Vector2(R(1), R(-2))}

Scalars == {R(2), <<1, 2>>}

\* A call: the heap and the record of the call afterwards.
Called(op, args, r) ==
  /\ Len(heap) < MaxObjects
  /\ heap' = r.heap
  /\ result' = [op |-> op, args |-> args, out |-> r.out]
  /\ UNCHANGED <<rendererVars, proj, managerVars, gameVars>>

Construct(v) == Called("new", <<>>, New(heap, v))

Add3(this, v) ==
  /\ IsVector3(heap[this]) /\ IsVector3(heap[v])
  /\ Called("Vector3.add", <<this, v>>, Vector3_add(heap, this, v))

Subtract3(this, v) ==
  /\ IsVector3(heap[this]) /\ IsVector3(heap[v])
  /\ Called("Vector3.subtract", <<this, v>>, Vector3_subtract(heap, this, v))

Scale3(this, scalar) ==
  /\ IsVector3(heap[this])
  /\ Called("Vector3.scale", <<this>>, Vector3_scale(heap, this, scalar))

\* Enabled on the vectors whose magnitude is rational.
Normalize3(this) ==
  /\ IsVector3(heap[this])
  /\ HasSqrt(Vector3_magnitudeSquared(heap, this))
  /\ Called("Vector3.normalize", <<this>>, Vector3_normalize(heap, this))

Clone3(this) ==
  /\ IsVector3(heap[this])
  /\ Called("Vector3.clone", <<this>>, Vector3_clone(heap, this))

Project3(this, screenCenter) ==
  /\ IsVector3(heap[this]) /\ IsVector2(heap[screenCenter])
  /\ Called("Vector3.project", <<this, screenCenter>>,
            Vector3_project(heap, this, R(1), screenCenter))

Add2(this, v) ==
  /\ IsVector2(heap[this]) /\ IsVector2(heap[v])
  /\ Called("Vector2.add", <<this, v>>, Vector2_add(heap, this, v))

Scale2(this, scalar) ==
  /\ IsVector2(heap[this])
  /\ Called("Vector2.scale", <<this>>, Vector2_scale(heap, this, scalar))

Clone2(this) ==
  /\ IsVector2(heap[this])
  /\ Called("Vector2.clone", <<this>>, Vector2_clone(heap, this))

NextVector ==
  \/ \E v \in NewVector3s \cup NewVector2s : Construct(v)
  \/ \E this \in 1..Len(heap), v \in 1..Len(heap) : Add3(this, v)
  \/ \E this \in 1..Len(heap), v \in 1..Len(heap) : Subtract3(this, v)
  \/ \E this \in 1..Len(heap), scalar \in Scalars : Scale3(this, scalar)
  \/ \E this \in 1..Len(heap) : Normalize3(this)
  \/ \E this \in 1..Len(heap) : Clone3(this)
  \/ \E this \in 1..Len(heap), screenCenter \in 1..Len(heap) : Project3(this, screenCenter)
  \/ \E this \in 1..Len(heap), v \in 1..Len(heap) : Add2(this, v)
  \/ \E this \in 1..Len(heap), scalar \in Scalars : Scale2(this, scalar)
  \/ \E this \in 1..Len(heap) : Clone2(this)

SpecVector == Init /\ [][NextVector]_vars

(***************************************************************************)
(* rotateVector2 called on its own: a point is rotated by an angle and the *)
(* rotated point by the opposite angle, as transformPointToView does with  *)
(* -camera.rotation.  The call and both points are recorded in result.     *)
(***************************************************************************)
RotateCoordinates == {R(-7), R(0), R(3), <<1, 2>>, R(100)}

RotatePoints == {Vector2(a, b) : a, b \in RotateCoordinates}

RotateThereAndBack(v, angle) ==
  /\ result = NoResult
  /\ \E rotated \in {rotateVector2(v, angle)} :
       result' = [op   |-> "rotateVector2",
                  args |-> <<v, angle>>,
                  out  |-> <<rotated, rotateVector2(rotated, -angle)>>]
  /\ UNCHANGED <<rendererVars, proj, heap, managerVars, gameVars>>

NextRotate == \E v \in RotatePoints, angle \in Angles : RotateThereAndBack(v, angle)

SpecRotate == Init /\ [][NextRotate]_vars

(***************************************************************************)
(* The entity manager driven by a game: entities are created and added,    *)
(* queued for removal, flagged as destroyed, and the manager is updated,   *)
(* rendered and cleared in any order.  result records the last call and    *)
(* trace the calls it made on entities.                                    *)
(***************************************************************************)
MaxEntities == 3

\* The entities a game creates: enemies that need cleanup in front and
\* backdrop stars behind them.  An updated enemy may spawn another enemy.
NewEntities == {Entity("Enemy", 5, TRUE), Entity("Star", 10, FALSE)}

Spawned == {Entity("Enemy", 5, TRUE)}

EntityClasses == {entity.type : entity \in NewEntities}

\* manager.add(new ...)
ManagerAdd(entity) ==
  /\ Len(objects) < MaxEntities
  /\ objects' = Append(objects, entity)
  /\ manager' = EntityManager_add(manager, Len(objects) + 1)
  /\ result' = [op |-> "add", args |-> <<Len(objects) + 1>>, out |-> Len(objects) + 1]
  /\ trace' = <<>>
  /\ UNCHANGED <<rendererVars, proj, heap, gameVars>>

\* The entities the manager holds, active or pending.
Managed == Range(manager.entities) \cup Range(manager.toAdd)

\* The entities whose update method the next update call will run and whose
\* destroyed flag is not set yet.
Updatable == {e \in Managed : e \notin manager.toRemove /\ ~objects[e].destroyed}

\* The entity among them that was created last: the one that is handed to
\* remove during an update, if any is.
LastUpdatable == {e \in Updatable : \A other \in Updatable : other <= e}

\* manager.remove(entity), for an entity the manager holds.
ManagerRemove(entity) ==
  /\ entity \in Managed
  /\ entity \notin manager.toRemove
  /\ manager' = EntityManager_remove(manager, entity)
  /\ result' = [op |-> "remove", args |-> <<entity>>, out |-> Undefined]
  /\ trace' = <<>>
  /\ UNCHANGED <<rendererVars, proj, heap, objects, gameVars>>

\* entity.destroyed = true, set by the game between two manager calls on an
\* entity the manager holds.
SetDestroyed(entity) ==
  /\ entity \in Managed
  /\ ~objects[entity].destroyed
  /\ objects' = [objects EXCEPT ![entity].destroyed = TRUE]
  /\ result' = [op |-> "destroyed", args |-> <<entity>>, out |-> Undefined]
  /\ trace' = <<>>
  /\ UNCHANGED <<rendererVars, proj, heap, manager, gameVars>>

\* manager.update(dt); the step records the entity handed to remove during
\* the call.
ManagerUpdate(dying, spawn, removing) ==
  /\ spawn # <<>> => Len(objects) < MaxEntities
  /\ \E r \in {EntityManager_update(manager, objects, dying, spawn, removing)} :
       /\ manager' = r.manager
       /\ objects' = r.objects
       /\ trace' = r.trace
  /\ result' = [op |-> "update", args |-> <<removing>>, out |-> Undefined]
  /\ UNCHANGED <<rendererVars, proj, heap, gameVars>>

\* manager.render(ctx)
ManagerRender ==
  /\ \E r \in {EntityManager_render(manager, objects)} :
       /\ manager' = r.manager
       /\ trace' = r.trace
  /\ result' = [op |-> "render", args |-> <<>>, out |-> Undefined]
  /\ UNCHANGED <<rendererVars, proj, heap, objects, gameVars>>

\* manager.clear()
ManagerClear ==
  /\ \E r \in {EntityManager_clear(manager, objects)} :
       /\ manager' = r.manager
       /\ trace' = r.trace
  /\ result' = [op |-> "clear", args |-> <<>>, out |-> Undefined]
  /\ UNCHANGED <<rendererVars, proj, heap, objects, gameVars>>

NextManager ==
  \/ \E entity \in NewEntities : ManagerAdd(entity)
  \/ \E entity \in 1..Len(objects) : ManagerRemove(entity)
  \/ \E entity \in 1..Len(objects) : SetDestroyed(entity)
  \/ \E dying \in SUBSET Updatable, spawn \in {<<>>} \cup {<<entity>> : entity \in Spawned},
        removing \in {<<>>} \cup {<<e>> : e \in LastUpdatable} :
       ManagerUpdate(dying, spawn, removing)
  \/ ManagerRender
  \/ ManagerClear

SpecManager == Init /\ [][NextManager]_vars

(***************************************************************************)
(* The input manager on its own: the browser dispatches keyboard, mouse    *)
(* and touch events on window, the game loop calls endFrame, and the game  *)
(* destroys the manager.  result records the last event or call.           *)
(***************************************************************************)
MaxTouches == 1

\* The events of the A key and of the left arrow key: a KeyboardEvent
\* carries the key value and the code of the physical key.
KeyboardEvents == {KeyboardEvent("a", "KeyA"), KeyboardEvent("ArrowLeft", "ArrowLeft")}

MouseEvents == {MouseEvent(R(100), R(200), 0), MouseEvent(R(300), R(50), 2)}

TouchPoints == {Vector2(R(10), R(20)), Vector2(R(30), R(40))}

TouchLists == UNION {[1..n -> TouchPoints] : n \in 0..MaxTouches}

\* window.dispatchEvent of a keyboard event: the handler bound to the type
\* runs when the manager has a listener for it.
dispatchKeyboardEvent(im, listeners, type, e) ==
  IF type \notin listeners THEN im
  ELSE IF type = "keydown" THEN handleKeyDown(im, e)
  ELSE handleKeyUp(im, e)

dispatchMouseEvent(im, listeners, type, e) ==
  IF type \notin listeners THEN im
  ELSE IF type = "mousemove" THEN handleMouseMove(im, e)
  ELSE IF type = "mousedown" THEN handleMouseDown(im, e)
  ELSE handleMouseUp(im, e)

dispatchTouchEvent(im, listeners, type, touchList) ==
  IF type \notin listeners THEN im
  ELSE IF type = "touchstart" THEN handleTouchStart(im, touchList)
  ELSE IF type = "touchmove" THEN handleTouchMove(im, touchList)
  ELSE handleTouchEnd(im, touchList)

Keyboard(type, e) ==
  /\ input' = dispatchKeyboardEvent(input, listening, type, e)
  /\ result' = [op |-> type, args |-> <<e>>, out |-> Undefined]
  /\ UNCHANGED <<rendererVars, proj, heap, managerVars, listening, loopVars>>

Mouse(type, e) ==
  /\ input' = dispatchMouseEvent(input, listening, type, e)
  /\ result' = [op |-> type, args |-> <<>>, out |-> Undefined]
  /\ UNCHANGED <<rendererVars, proj, heap, managerVars, listening, loopVars>>

Touch(type, touchList) ==
  /\ input' = dispatchTouchEvent(input, listening, type, touchList)
  /\ result' = [op |-> type, args |-> <<>>, out |-> Undefined]
  /\ UNCHANGED <<rendererVars, proj, heap, managerVars, listening, loopVars>>

EndFrame ==
  /\ input' = endFrame(input)
  /\ result' = [op |-> "endFrame", args |-> <<>>, out |-> Undefined]
  /\ UNCHANGED <<rendererVars, proj, heap, managerVars, listening, loopVars>>

Destroy ==
  /\ listening' = destroy(listening)
  /\ result' = [op |-> "destroy", args |-> <<>>, out |-> Undefined]
  /\ UNCHANGED <<rendererVars, proj, heap, managerVars, input, loopVars>>

NextInput ==
  \/ \E type \in {"keydown", "keyup"}, e \in KeyboardEvents : Keyboard(type, e)
  \/ \E type \in {"mousemove", "mousedown", "mouseup"}, e \in MouseEvents : Mouse(type, e)
  \/ \E type \in {"touchstart", "touchmove", "touchend", "touchcancel"},
        touchList \in TouchLists : Touch(type, touchList)
  \/ EndFrame
  \/ Destroy

SpecInput == Init /\ [][NextInput]_vars

(***************************************************************************)
(* ArkanoidGame under the game loop.  The clock advances between the       *)
(* animation frames; a frame is one call of loop with the clock's value:   *)
(* update unless paused, render, input.endFrame().                         *)
(***************************************************************************)
MaxTime == 300

\* The milliseconds between two readings of the clock: less and more than
\* the 100 the loop caps the delta time at.
TickSizes == {50, 150}

\* The A key and the arrow keys, as the browser reports them.
PaddleKeys ==
  {KeyboardEvent("a", "KeyA"), KeyboardEvent("ArrowLeft", "ArrowLeft"),
   KeyboardEvent("ArrowRight", "ArrowRight")}

Tick(d) ==
  /\ now + d <= MaxTime
  /\ now' = now + d
  /\ result' = [op |-> "tick", args |-> <<d>>, out |-> Undefined]
  /\ UNCHANGED <<rendererVars, proj, heap, managerVars, inputVars, game, arkanoid, launcher, scenes>>

\* One iteration of ArkanoidGame's loop; outcome and met are what the ball's flight
\* does in its update.
Frame(outcome, met) ==
  /\ game.running
  /\ <<outcome, met>> \in IF ~game.paused /\ arkanoid.state = "playing"
                          THEN Outcomes(arkanoid) ELSE {<<0, {}>>}
  /\ \E u \in {Game_loopUpdate([game |-> game, scenes |-> scenes, log |-> <<>>], now)} :
     \E a \in {IF game.paused THEN arkanoid
               ELSE ArkanoidGame_update(arkanoid, input, deltaTime(now, game.lastTime),
                                        R(width), outcome, met)} :
     \E r \in {Game_loopEndFrame(ArkanoidGame_render(Game_loopRender(u), a, input, now))} :
       /\ arkanoid' = a
       /\ game' = r.game
       /\ scenes' = r.scenes
       /\ result' = [op |-> "frame", args |-> <<outcome, met>>, out |-> r.log]
  /\ input' = endFrame(input)
  /\ UNCHANGED <<rendererVars, proj, heap, managerVars, listening, now, launcher>>

NextPaddle ==
  \/ \E type \in {"keydown", "keyup"}, e \in PaddleKeys : Keyboard(type, e)
  \/ \E d \in TickSizes : Tick(d)
  \/ Frame(0, {})

SpecPaddle == Init /\ [][NextPaddle]_vars

(***************************************************************************)
(* The Game base class with scenes: the loop, the pause control, setScene  *)
(* and stop.  Each step logs in result.out the calls it made.              *)
(***************************************************************************)
World == [game |-> game, scenes |-> scenes, log |-> <<>>]

\* The step leaves the game, the scenes and the log of w.
GameStep(op, args, w) ==
  /\ game' = w.game
  /\ scenes' = w.scenes
  /\ result' = [op |-> op, args |-> args, out |-> w.log]

\* One call of loop by requestAnimationFrame, with the clock's value, when
\* a requested frame is due.
Loop ==
  /\ game.requested > 0
  /\ \E w \in {Game_loop(World, now)} :
       /\ GameStep("loop", <<now, game.lastTime>>, w)
       /\ input' = inputAfter(w.log, input)
  /\ UNCHANGED <<rendererVars, proj, heap, managerVars, listening, arkanoid, launcher, now>>

Pause ==
  /\ GameStep("pause", <<>>, Game_pause(World))
  /\ UNCHANGED <<rendererVars, proj, heap, managerVars, inputVars, arkanoid, launcher, now>>

Resume ==
  /\ GameStep("resume", <<>>, Game_resume(World, now))
  /\ UNCHANGED <<rendererVars, proj, heap, managerVars, inputVars, arkanoid, launcher, now>>

TogglePause ==
  /\ GameStep("togglePause", <<>>, Game_togglePause(World, now))
  /\ UNCHANGED <<rendererVars, proj, heap, managerVars, inputVars, arkanoid, launcher, now>>

SetScene(s) ==
  /\ GameStep("setScene", <<s>>, Game_setScene(World, s))
  /\ UNCHANGED <<rendererVars, proj, heap, managerVars, inputVars, arkanoid, launcher, now>>

Stop ==
  /\ GameStep("stop", <<>>, Game_stop(World))
  /\ listening' = destroy(listening)
  /\ UNCHANGED <<rendererVars, proj, heap, managerVars, input, arkanoid, launcher, now>>

NextGame ==
  \/ \E d \in TickSizes : Tick(d)
  \/ Loop
  \/ Pause
  \/ Resume
  \/ TogglePause
  \/ \E s \in SceneIds : SetScene(s)
  \/ Stop

SpecGame == Init /\ [][NextGame]_vars

\* The keyboard under the game loop: keys go down and up between the
\* animation frames of a game that is paused, resumed and stopped.
NextKeys ==
  \/ \E type \in {"keydown", "keyup"}, e \in KeyboardEvents : Keyboard(type, e)
  \/ Tick(MaxTime \div 2)
  \/ Loop
  \/ TogglePause
  \/ Stop

SpecKeys == Init /\ [][NextKeys]_vars

\* The Escape key.
Escape == KeyboardEvent("Escape", "Escape")

(***************************************************************************)
(* SimpleDoomGame under the game loop.  The window changes size between    *)
(* the animation frames; a frame is one call of loop: update unless        *)
(* paused, which moves and turns the camera and looks at the size, render, *)
(* which calls the renderer, and input.endFrame().  The overlays render    *)
(* draws after the renderer's call are left out.                           *)
(***************************************************************************)
\* The resize event of window: innerWidth and innerHeight have changed.
WindowResize(s) ==
  /\ s # game.window
  /\ game' = [game EXCEPT !.window = s]
  /\ result' = [op |-> "resize", args |-> <<s>>, out |-> <<>>]
  /\ UNCHANGED <<rendererVars, proj, heap, managerVars, inputVars, arkanoid, launcher, scenes, now>>

\* One iteration of SimpleDoomGame's loop; the keys held move the camera by
\* (dx, dz) steps and leave it turned by angle.
DoomFrame(dx, dz, angle) ==
  LET x == RAdd(camera.position.x, R(dx * CamStepX))
      z == RAdd(camera.position.z, R(dz * CamStepZ))
  IN  /\ game.running /\ game.requested > 0
      /\ game.paused => dx = 0 /\ dz = 0 /\ angle = camera.rotation
      /\ RLe(R(0), x) /\ RLe(R(0), z)
      /\ x[1] \div CamStepX + z[1] \div CamStepZ <= MaxCamSteps
      /\ \E cam \in {[camera EXCEPT !.position.x = x, !.position.z = z,
                                     !.rotation = angle]},
            size \in {IF game.paused THEN <<width, height>>
                      ELSE SimpleDoomGame_updateSize(game, width, height)},
            w \in {Game_loopRequest(Game_loopEndFrame(SimpleDoomGame_render(
                     Game_loopRender(Game_loopUpdate(Game_loopFired(World), now)),
                     input)))} :
           \E r \in {render([calls |-> <<>>, fillStyle |-> ctx.fillStyle,
                              strokeStyle |-> ctx.strokeStyle, path |-> ctx.path,
                              lineWidth |-> ctx.lineWidth],
                             scene, cam, R(size[1]), R(size[2]))} :
             /\ width' = size[1]
             /\ height' = size[2]
             /\ camera' = cam
             /\ phase' = "rendered"
             /\ calls' = r.ctx.calls
             /\ ctx' = [fillStyle |-> r.ctx.fillStyle, strokeStyle |-> r.ctx.strokeStyle,
                        path |-> r.ctx.path, lineWidth |-> r.ctx.lineWidth]
             /\ transformedFaces' = r.faces
             /\ GameStep("frame", <<size, game.window>>, w)
             /\ input' = inputAfter(w.log, input)
      /\ UNCHANGED <<scene, proj, heap, managerVars, listening, arkanoid, launcher, now>>

NextDoom ==
  \/ PushMesh(addWalls(Mesh(V3(0, 0, 0)), Walls[1]))
  \/ \E s \in Sizes : WindowResize(s)
  \/ \E type \in {"keydown", "keyup"} : Keyboard(type, Escape)
  \/ TogglePause
  \/ \E d \in {<<0, 0>>, <<1, 0>>, <<-1, 0>>, <<0, 1>>, <<0, -1>>}, angle \in CamYaws :
       DoomFrame(d[1], d[2], angle)

SpecDoom == Init /\ [][NextDoom]_vars

\* The whole game: the pointer restarts it, Escape pauses it, and the ball
\* does in each update whatever it can.  The clock advances by half its
\* span, more than the cap of the delta time.
NextArkanoid ==
  \/ \E type \in {"keydown", "keyup"} : Keyboard(type, Escape)
  \/ \E type \in {"mousedown", "mouseup"}, e \in MouseEvents : Mouse(type, e)
  \/ Tick(MaxTime \div 2)
  \/ \E outcome \in {-1, 0}, met \in SUBSET (1..BrickCols) : Frame(outcome, met)

SpecArkanoid == Init /\ [][NextArkanoid]_vars

(***************************************************************************)
(* GameLauncher.  The selector runs on animation frames; the pointer and   *)
(* the keys choose a game, the game's pause menu calls back returnToMenu.  *)
(* The number of requested frames is capped.                               *)
(***************************************************************************)
MaxRequested == 3

LauncherWorld == [game |-> game, launcher |-> launcher, log |-> <<>>]

\* The step leaves the launcher, the game and the log of w.
LauncherStep(op, args, w) ==
  /\ launcher' = w.launcher
  /\ game' = w.game
  /\ result' = [op |-> op, args |-> args, out |-> w.log]
  /\ UNCHANGED <<rendererVars, proj, heap, managerVars, inputVars, arkanoid, scenes, now>>

\* A requested frame is due: selectorLoop is called back.
SelectorFrame(pressed) ==
  /\ launcher.requested > 0
  /\ ~launcher.attached => pressed = {}
  /\ LauncherStep("selectorLoop", <<pressed>>,
                  GameLauncher_selectorLoop(
                    [LauncherWorld EXCEPT !.launcher.requested = @ - 1], pressed, now))

\* The events of the selector's canvas, which is hidden while a game runs.
SelectorMouseMove(i) ==
  /\ launcher.currentGame = <<>>
  /\ LauncherStep("mousemove", <<i>>, GameLauncher_onMouseMove(LauncherWorld, i))

SelectorClick ==
  /\ launcher.currentGame = <<>>
  /\ LauncherStep("click", <<>>, GameLauncher_onClick(LauncherWorld, now))

\* The running game calls back returnToMenu.
ReturnToMenu ==
  /\ launcher.currentGame # <<>>
  /\ launcher.requested < MaxRequested
  /\ LauncherStep("returnToMenu", <<>>, GameLauncher_returnToMenu(LauncherWorld, now))

NextLauncher ==
  \/ Tick(MaxTime \div 2)
  \/ \E pressed \in {{}, {"ArrowUp"}, {"ArrowDown"}, {"Enter"}, {"ArrowDown", "Enter"}} :
       SelectorFrame(pressed)
  \/ \E i \in -1..(Len(GAMES) - 1) : SelectorMouseMove(i)
  \/ SelectorClick
  \/ ReturnToMenu

SpecLauncher == Init /\ [][NextLauncher]_vars

(***************************************************************************)
(* rayIntersectsBoundingBox as a pure function, applied to the box of its  *)
(* tests and rays from around, on the edges of and inside the box.         *)
(***************************************************************************)
RayBox == BoundingBox(R(10), R(0), R(5), R(10))

RayOrigins == {Vector2(R(x), R(y)) : x \in {0, 10, 12, 15, 20}, y \in {-5, 0, 5, 10, 20}}

RayDirections == {Vector2(R(x), R(y)) : x \in {-10, 0, 5, 20}, y \in {-10, 0, 5, 20}}

RayCall(rayOrigin, rayDirection, box) ==
  /\ result' = [op |-> "rayIntersectsBoundingBox",
                args |-> <<rayOrigin, rayDirection, box>>,
                out |-> rayIntersectsBoundingBox(rayOrigin, rayDirection, box)]
  /\ UNCHANGED <<rendererVars, proj, heap, managerVars, gameVars>>

NextRay == \E o \in RayOrigins, d \in RayDirections : RayCall(o, d, RayBox)

SpecRay == Init /\ [][NextRay]_vars

(***************************************************************************)
(* Properties.  The helpers below restate what the specification says of a *)
(* frame, independently of the operators above where the statement is      *)
(* about their result.                                                     *)
(***************************************************************************)
Rendered == phase \in {"rendered", "rerendered"}

\* The screen centre of the frame.
FrameCenter == Vector2(RDiv(R(width), R(2)), RDiv(R(height), R(2)))

\* Both endpoints are behind the near plane (z < 1.0).
BothBehind(f) == RLt(f.p1.z, R(1)) /\ RLt(f.p2.z, R(1))

\* Exactly one endpoint is behind the near plane.
OneBehind(f) == RLt(f.p1.z, R(1)) # RLt(f.p2.z, R(1))

\* The larger of the two endpoint depths.
MaxDepth(f) == IF RLt(f.p1.z, f.p2.z) THEN f.p2.z ELSE f.p1.z

\* The faces of the sorted array that are not entirely behind the plane, and
\* those that are.
KeptFaces == SelectSeq(transformedFaces, LAMBDA f : ~BothBehind(f))

BehindFaces == SelectSeq(transformedFaces, LAMBDA f : BothBehind(f))

\* The fill calls of the frame, in the order they were issued.
FillCalls == SelectSeq(calls, LAMBDA c : c.op = "fill")

\* The number of context calls clear() makes before the first face.
ClearCalls == 6

\* The number of context calls one drawn quad takes.
QuadCalls == 8

\* The path of the closed quad (top1, top2, bottom2, bottom1).
QuadPath(top1, top2, bottom2, bottom1) ==
  << <<"M", top1.x, top1.y>>, <<"L", top2.x, top2.y>>,
     <<"L", bottom2.x, bottom2.y>>, <<"L", bottom1.x, bottom1.y>>,
     <<"Z", R(0), R(0)>> >>

\* Perspective division as the specification states it.
Persp(x, y, z, focalLength, center) ==
  Vector2(RAdd(center.x, RDiv(RMul(x, focalLength), z)),
          RAdd(center.y, RDiv(RMul(y, focalLength), z)))

\* The quad of a wall between the view-space floor points (x1, z1), (x2, z2).
WallPath(x1, z1, x2, z2) ==
  QuadPath(Persp(x1, R(-20), z1, camera.fov, FrameCenter),
           Persp(x2, R(-20), z2, camera.fov, FrameCenter),
           Persp(x2, R(20), z2, camera.fov, FrameCenter),
           Persp(x1, R(20), z1, camera.fov, FrameCenter))

\* The view-space faces of the frame before sorting, from the scene.
ViewFaces == collectFaces(scene, camera, 1)

SameBag(s1, s2) ==
  /\ Len(s1) = Len(s2)
  /\ \A i \in 1..Len(s1) :
       Cardinality({j \in 1..Len(s1) : s1[j] = s1[i]})
         = Cardinality({j \in 1..Len(s2) : s2[j] = s1[i]})

\* C1: within one render call the quads are drawn back-to-front: the fill
\* calls of the frame are those of the drawn faces, one each, and a face of
\* larger sortDepth is never filled after a face of smaller sortDepth.
C1_BackToFront ==
  Rendered =>
    LET kept == KeptFaces
        fills == FillCalls
    IN  /\ SameBag(transformedFaces, ViewFaces)
        /\ Len(fills) = Len(kept)
        /\ \A k \in 1..Len(kept) :
             /\ fills[k].style = kept[k].color
             /\ fills[k].path =
                  LET q == projectFace(kept[k], camera.fov, FrameCenter)
                  IN  QuadPath(q.p1Top, q.p2Top, q.p2Bottom, q.p1Bottom)
        /\ \A i, j \in 1..Len(kept) :
             RLt(MaxDepth(kept[j]), MaxDepth(kept[i])) => i < j

\* A wall with view depths -100 and 100 was filled before an object at view
\* depth 50.
C1_Witness ==
  /\ Rendered
  /\ LET kept == KeptFaces
         fills == FillCalls
     IN  \E i, j \in 1..Len(kept) :
           /\ i < j
           /\ kept[i].p1.z = R(-100) /\ kept[i].p2.z = R(100)
           /\ kept[j].p1.z = R(50) /\ kept[j].p2.z = R(50)
           /\ fills[i].style = WallA.color
           /\ fills[j].style = ObjB.color

C3_BehindFacesDropped ==
  Rendered =>
    LET kept == KeptFaces
        behind == BehindFaces
    IN  /\ Len(calls) = ClearCalls + QuadCalls * Len(kept)
        /\ Len(FillCalls) = Len(kept)
        /\ Len(SelectSeq(calls, LAMBDA c : c.op = "stroke")) = 1 + Len(kept)
        /\ Len(SelectSeq(calls, LAMBDA c : c.op = "beginPath")) = 1 + Len(kept)
        /\ \A i \in 1..Len(behind) :
             (\A k \in 1..Len(kept) : kept[k].color # behind[i].color)
               => /\ \A n \in 1..Len(calls) : calls[n].style # behind[i].color
                  /\ ctx.fillStyle # behind[i].color

\* A frame that dropped a face and drew another one.
C3_Witness ==
  /\ Rendered
  /\ LET kept == KeptFaces
         behind == BehindFaces
     IN  /\ Len(kept) > 0
         /\ \E i \in 1..Len(behind) :
              /\ \A k \in 1..Len(kept) : kept[k].color # behind[i].color
              /\ ctx.fillStyle # behind[i].color

\* The endpoints of a face with exactly one endpoint behind the plane after
\* clipping, as the specification states them.
ClipT(f) == RDiv(RSub(R(1), f.p1.z), RSub(f.p2.z, f.p1.z))

ClipPoint(f) ==
  Vector3(RAdd(f.p1.x, RMul(RSub(f.p2.x, f.p1.x), ClipT(f))), R(0), R(1))

\* C4: when exactly one endpoint is behind the plane, that endpoint and only
\* that one is replaced by the point (v1.x + (v2.x - v1.x) * t, 0, 1.0) with
\* t = (1 - v1.z) / (v2.z - v1.z), and the quad is projected from it and the
\* unchanged other endpoint.
C4_ClipExact ==
  Rendered =>
    LET kept == KeptFaces
        fills == FillCalls
    IN  \A k \in 1..Len(kept) :
          LET f == kept[k]
              v1 == IF RLt(f.p1.z, R(1)) THEN ClipPoint(f) ELSE f.p1
              v2 == IF RLt(f.p2.z, R(1)) THEN ClipPoint(f) ELSE f.p2
              cl == clipFace(f)
          IN  OneBehind(f) =>
                /\ cl.v1 = v1
                /\ cl.v2 = v2
                /\ cl.t = ClipT(f)
                /\ fills[k].path = WallPath(v1.x, v1.z, v2.x, v2.z)

\* A drawn face with endpoints at depths -10 and 10: t = 0.55, and a drawn
\* face whose second endpoint is the one behind the plane.
C4_Witness ==
  /\ Rendered
  /\ LET kept == KeptFaces
         fills == FillCalls
     IN  \E k \in 1..Len(kept) :
           /\ kept[k].p1.z = R(-10) /\ kept[k].p2.z = R(10)
           /\ clipFace(kept[k]).t = <<11, 20>>
           /\ clipFace(kept[k]).v1.z = R(1)
           /\ fills[k].path[1][2] = RAdd(FrameCenter.x,
                RMul(camera.fov, lerp(kept[k].p1.x, kept[k].p2.x, <<11, 20>>)))

\* The context calls of a frame rendered on a context as the browser
\* creates it.
FrameCalls(sc, cam, w, h) == render(NewContext, sc, cam, R(w), R(h)).ctx.calls

\* The scene lists that are permutations of sc.
Perms(n) == {p \in [1..n -> 1..n] : \A i, j \in 1..n : p[i] = p[j] => i = j}

Permuted(sc, p) == [i \in 1..Len(sc) |-> sc[p[i]]]

\* The view-space faces of mesh number m of the scene.
MeshViewFaces(m) ==
  [i \in 1..Len(scene[m].faces) |-> toRenderableFace(scene[m].faces[i], scene[m], camera)]

\* No two drawn faces of different meshes have the same sortDepth.
NoTieAcrossMeshes ==
  \A m1, m2 \in 1..Len(scene) :
    m1 # m2 =>
      LET f1 == MeshViewFaces(m1)
          f2 == MeshViewFaces(m2)
      IN  \A i \in 1..Len(f1), j \in 1..Len(f2) :
            (~BothBehind(f1[i]) /\ ~BothBehind(f2[j])) => MaxDepth(f1[i]) # MaxDepth(f2[j])

\* C5 as stated: the draw calls of the frame are the same for every
\* permutation of the scene list, faces of equal sortDepth included.
C5_OrderIrrelevant ==
  Rendered =>
    \A p \in Perms(Len(scene)) :
      FrameCalls(Permuted(scene, p), camera, width, height) = calls

\* C5 amended: the draw calls of the frame are the same for every
\* permutation of the scene list when no two drawn faces of different meshes
\* have equal sortDepth (faces of equal sortDepth are drawn in list order).
C5_OrderIrrelevantWithoutTies ==
  (Rendered /\ NoTieAcrossMeshes) =>
    \A p \in Perms(Len(scene)) :
      FrameCalls(Permuted(scene, p), camera, width, height) = calls

\* A frame of two different meshes that both have a drawn face, no ties.
C5_Witness ==
  /\ Rendered
  /\ Len(scene) >= 2
  /\ scene[1] # scene[2]
  /\ NoTieAcrossMeshes
  /\ \E i \in 1..Len(scene[1].faces) : ~BothBehind(MeshViewFaces(1)[i])
  /\ \E i \in 1..Len(scene[2].faces) : ~BothBehind(MeshViewFaces(2)[i])
  /\ FrameCalls(Permuted(scene, <<2, 1>> \o [i \in 1..(Len(scene) - 2) |-> i + 2]),
                camera, width, height) = calls

\* C6: project never divides by zero or by a negative depth: the divisor is
\* max(z, 0.001), at least 0.001, and the result is the finite point
\* screenCenter + (x, y) * (focalLength / max(z, 0.001)).
C6_ProjectDivisor ==
  proj # NoProj =>
    LET z == proj.v.z
        div == IF RLt(z, <<1, 1000>>) THEN <<1, 1000>> ELSE z
        scale == RDiv(proj.focalLength, div)
    IN  /\ proj.divisor = div
        /\ RLe(<<1, 1000>>, proj.divisor)
        /\ proj.out = Vector2(RAdd(proj.screenCenter.x, RMul(proj.v.x, scale)),
                              RAdd(proj.screenCenter.y, RMul(proj.v.y, scale)))
        /\ IsFinite(proj.out.x) /\ IsFinite(proj.out.y)

\* project was applied to a point of depth 0 and to a point of negative depth.
C6_Witness ==
  /\ proj # NoProj
  /\ proj.v.x = R(100)
  /\ proj.v.z \in {R(0), R(-5)}
  /\ proj.focalLength = R(400)
  /\ proj.divisor = <<1, 1000>>
  /\ proj.out.x = RAdd(proj.screenCenter.x, R(40000000))

\* C7: for z >= 1, project(1, center) is (center.x + x/z, center.y + y/z);
\* (100,50,1) gives (100,50), (100,50,2) gives (50,25) and, with center
\* (400,300), (450,325).
C7_ProjectScaling ==
  (proj # NoProj /\ proj.focalLength = R(1) /\ RLe(R(1), proj.v.z)) =>
    /\ proj.out = Vector2(RAdd(proj.screenCenter.x, RDiv(proj.v.x, proj.v.z)),
                          RAdd(proj.screenCenter.y, RDiv(proj.v.y, proj.v.z)))
    /\ (proj.v = V3(100, 50, 1) /\ proj.screenCenter = Vector2(R(0), R(0)))
         => proj.out = Vector2(R(100), R(50))
    /\ (proj.v = V3(100, 50, 2) /\ proj.screenCenter = Vector2(R(0), R(0)))
         => proj.out = Vector2(R(50), R(25))
    /\ (proj.v = V3(100, 50, 2) /\ proj.screenCenter = Vector2(R(400), R(300)))
         => proj.out = Vector2(R(450), R(325))

\* project(1, (400,300)) was applied to (100, 50, 2).
C7_Witness ==
  /\ proj # NoProj
  /\ proj.v = V3(100, 50, 2)
  /\ proj.focalLength = R(1)
  /\ proj.screenCenter = Vector2(R(400), R(300))
  /\ proj.out = Vector2(R(450), R(325))

\* C8: a frame is a function of (scene, camera, surface size) alone: every
\* render call issues the calls a newly created context would receive, and
\* a render call repeated with unchanged inputs repeats the calls.
C8_PureFrames ==
  [][(phase' \in {"rendered", "rerendered"}) =>
       /\ calls' = FrameCalls(scene, camera, width, height)
       /\ (Rendered => calls' = calls)]_vars

\* A frame with quads was rendered a second time, on a context whose styles
\* the first frame had changed.
C8_Witness ==
  /\ phase = "rerendered"
  /\ Len(calls) > ClearCalls
  /\ ctx.strokeStyle # NewContext.strokeStyle
  /\ calls = FrameCalls(scene, camera, width, height)

C10_QuadPerVisibleFace ==
  Rendered =>
    LET vis == SelectSeq(transformedFaces,
                         LAMBDA f : RLe(R(1), f.p1.z) \/ RLe(R(1), f.p2.z))
    IN  /\ Len(calls) = ClearCalls + QuadCalls * Len(vis)
        /\ \A n \in 1..Len(calls) :
             /\ \A a \in 1..Len(calls[n].args) : IsFinite(calls[n].args[a])
             /\ \A a \in 1..Len(calls[n].path) :
                  IsFinite(calls[n].path[a][2]) /\ IsFinite(calls[n].path[a][3])
        /\ \A k \in 1..Len(vis) :
             LET base == ClearCalls + QuadCalls * (k - 1)
                 q == projectFace(vis[k], camera.fov, FrameCenter)
                 path == QuadPath(q.p1Top, q.p2Top, q.p2Bottom, q.p1Bottom)
             IN  /\ calls[base + 1].op = "beginPath"
                 /\ calls[base + 2].op = "moveTo"
                 /\ calls[base + 2].args = <<q.p1Top.x, q.p1Top.y>>
                 /\ calls[base + 3].op = "lineTo"
                 /\ calls[base + 3].args = <<q.p2Top.x, q.p2Top.y>>
                 /\ calls[base + 4].op = "lineTo"
                 /\ calls[base + 4].args = <<q.p2Bottom.x, q.p2Bottom.y>>
                 /\ calls[base + 5].op = "lineTo"
                 /\ calls[base + 5].args = <<q.p1Bottom.x, q.p1Bottom.y>>
                 /\ calls[base + 6].op = "closePath"
                 /\ calls[base + 7] = Call("fill", <<>>, path, 0, vis[k].color)
                 /\ calls[base + 8] = Call("stroke", <<>>, path, 1, "#000")
                 /\ (vis[k].p1 = vis[k].p2) =>
                      (q.p1Top = q.p2Top /\ q.p1Bottom = q.p2Bottom)

\* A zero-width face in front of the near plane was drawn as a quad whose
\* left and right edges coincide.
C10_Witness ==
  /\ Rendered
  /\ \E n \in 1..Len(calls) :
       /\ calls[n].op = "fill"
       /\ calls[n].style = ZeroD.color
       /\ calls[n].path[1][2] = calls[n].path[2][2]
       /\ calls[n].path[1][3] = calls[n].path[2][3]
       /\ calls[n].path[3][2] = calls[n].path[4][2]
       /\ calls[n].path[3][3] = calls[n].path[4][3]
       /\ calls[n].path[1][3] # calls[n].path[4][3]

\* The frame of the end-to-end scenario: the mesh at the origin, not
\* rotated, holds the one face (-50,0,50)-(50,0,50); the camera is at the
\* origin with rotation 0 and fov 400.
IdentityFrame ==
  /\ Rendered
  /\ Len(scene) = 1
  /\ scene[1].position = V3(0, 0, 0)
  /\ scene[1].rotation = 0
  /\ Len(scene[1].faces) = 1
  /\ scene[1].faces[1].p1 = V3(-50, 0, 50)
  /\ scene[1].faces[1].p2 = V3(50, 0, 50)
  /\ camera = Camera(V3(0, 0, 0), 0, R(400))

\* C11: in the end-to-end scenario the view-space endpoints equal the local
\* endpoints, sortDepth is 50, the face is not clipped (its quad spans the
\* unclipped endpoints) and the floor point of p1 is drawn at
\* (W/2 - 400, H/2 + FLOOR_Y * 8) = (W/2 - 400, H/2 + 160).
C11_IdentityCase ==
  IdentityFrame =>
    /\ Len(transformedFaces) = 1
    /\ transformedFaces[1].p1 = V3(-50, 0, 50)
    /\ transformedFaces[1].p2 = V3(50, 0, 50)
    /\ transformedFaces[1].sortDepth = R(50)
    /\ Len(FillCalls) = 1
    /\ LET W2 == width \div 2
           H2 == height \div 2
       IN  FillCalls[1].path =
             << <<"M", R(W2 - 400), R(H2 - 160)>>, <<"L", R(W2 + 400), R(H2 - 160)>>,
                <<"L", R(W2 + 400), R(H2 + 160)>>, <<"L", R(W2 - 400), R(H2 + 160)>>,
                <<"Z", R(0), R(0)>> >>

\* The end-to-end scenario was rendered on the 800 x 600 surface.
C11_Witness ==
  /\ IdentityFrame
  /\ width = 800
  /\ height = 600
  /\ FillCalls[1].path[4] = <<"L", R(0), R(460)>>

\* C12: the surface size changes only in a resize step, which changes
\* nothing else of the renderer, the scene or the camera; every render call
\* paints the background over the current width x height with the colors
\* the renderer was created with, and centres the quads of its unclipped
\* faces on (width/2, height/2).
C12_ResizeTakesEffect ==
  [][/\ (width' # width \/ height' # height) =>
          /\ phase' = "updated"
          /\ <<width', height'>> \in Sizes
          /\ scene' = scene /\ camera' = camera /\ ctx' = ctx
     /\ (phase' \in {"rendered", "rerendered"}) =>
          /\ width' = width /\ height' = height
          /\ calls'[1] = Call("fillRect", <<R(0), R(0), R(width), R(height)>>, <<>>, 0, "#050510")
          /\ calls'[2] = Call("fillRect", <<R(0), R(0), R(width), RDiv(R(height), R(2))>>,
                              <<>>, 0, "#000022")
          /\ calls'[6] = Call("stroke", <<>>,
                              << <<"M", R(0), RDiv(R(height), R(2))>>,
                                 <<"L", R(width), RDiv(R(height), R(2))>> >>, 2, "#330066")
          /\ LET kept == KeptFaces'
                 fills == FillCalls'
             IN  \A k \in 1..Len(kept) :
                   ~OneBehind(kept[k]) =>
                     fills[k].path = WallPath(kept[k].p1.x, kept[k].p1.z,
                                              kept[k].p2.x, kept[k].p2.z)]_vars

\* A frame with a quad was rendered on the surface resized to 400 x 300.
C12_Witness ==
  /\ Rendered
  /\ width = 400 /\ height = 300
  /\ calls[1].args = <<R(0), R(0), R(400), R(300)>>
  /\ calls[2].args = <<R(0), R(0), R(400), R(150)>>
  /\ \E k \in 1..Len(KeptFaces) :
       /\ ~OneBehind(KeptFaces[k])
       /\ FillCalls[k].path[1][2] = RAdd(R(200), RDiv(RMul(KeptFaces[k].p1.x, R(400)),
                                                      KeptFaces[k].p1.z))

\* C13: every render call first paints the background: the floor color over
\* the full surface, then the sky color over the upper half, then the
\* horizon line at the vertical midpoint; these are the first calls of the
\* frame, and every call of a face quad comes after them.
C13_BackgroundFirst ==
  Rendered =>
    LET halfHeight == RDiv(R(height), R(2))
    IN  /\ Len(calls) >= 6
        /\ calls[1] = Call("fillRect", <<R(0), R(0), R(width), R(height)>>, <<>>, 0, floorColor)
        /\ calls[2] = Call("fillRect", <<R(0), R(0), R(width), halfHeight>>, <<>>, 0, skyColor)
        /\ calls[3].op = "beginPath"
        /\ calls[4] = Call("moveTo", <<R(0), halfHeight>>, <<>>, 0, "")
        /\ calls[5] = Call("lineTo", <<R(width), halfHeight>>, <<>>, 0, "")
        /\ calls[6] = Call("stroke", <<>>,
                           << <<"M", R(0), halfHeight>>, <<"L", R(width), halfHeight>> >>,
                           2, horizonColor)
        /\ \A n \in 1..Len(calls) :
             (calls[n].op \in {"fill", "closePath"} \/ (calls[n].op = "stroke" /\ n # 6))
               => n > 6
        /\ \A n \in 1..Len(calls) : calls[n].op = "fillRect" => n <= 2

\* A frame with at least two quads, all drawn after the horizon line.
C13_Witness ==
  /\ Rendered
  /\ Len(FillCalls) >= 2
  /\ calls[6].op = "stroke"
  /\ calls[6].style = horizonColor
  /\ calls[7].op = "beginPath"
  /\ calls[14].op = "stroke"

\* C14: createRoom gives exactly four faces, the north, east, south and west
\* wall in this order; the wall of a supplied color slot has that color, the
\* wall of a missing slot has the first supplied color, and with no color
\* supplied all four are '#888'.  (Colors are non-empty strings.)
C14_CreateRoomColors ==
  (result # NoResult /\ result.op = "createRoom") =>
    LET roomWidth == result.args[1]
        roomDepth == result.args[2]
        colors == result.args[3]
        faces == result.out.faces
        halfW == RDiv(roomWidth, R(2))
        halfD == RDiv(roomDepth, R(2))
    IN  /\ Len(faces) = 4
        /\ faces[1].p1.z = RNeg(halfD) /\ faces[1].p2.z = RNeg(halfD)
        /\ faces[2].p1.x = halfW /\ faces[2].p2.x = halfW
        /\ faces[3].p1.z = halfD /\ faces[3].p2.z = halfD
        /\ faces[4].p1.x = RNeg(halfW) /\ faces[4].p2.x = RNeg(halfW)
        /\ (\A i \in 1..Len(colors) : colors[i] # "") =>
             \A i \in 1..4 :
               faces[i].color = IF i <= Len(colors) THEN colors[i]
                                ELSE IF Len(colors) >= 1 THEN colors[1]
                                ELSE "#888"

\* A room was created from two colors: the south and west walls repeat the
\* first one.
C14_Witness ==
  /\ result # NoResult
  /\ result.op = "createRoom"
  /\ result.args[3] = <<"#f00", "#0f0">>
  /\ [i \in 1..4 |-> result.out.faces[i].color] = <<"#f00", "#0f0", "#f00", "#f00">>

\* C15: a vector method leaves its receiver and its argument, and every
\* other vector, as they were and returns a new object, distinct from both;
\* the object clone returns has the components of the receiver.
C15_NoMutation ==
  [][heap' # heap =>
       /\ \A i \in 1..Len(heap) : heap'[i] = heap[i]
       /\ Len(heap') = Len(heap) + 1
       /\ result'.out = Len(heap) + 1
       /\ \A i \in 1..Len(result'.args) : result'.args[i] # result'.out
       /\ result'.op \in {"Vector3.clone", "Vector2.clone"}
            => heap'[result'.out] = heap[result'.args[1]]]_vars

\* A vector was added to itself, normalized or cloned, and the receiver is
\* still what it was constructed as.
C15_Witness ==
  /\ Len(heap) = 3
  /\ heap[1] = V3(3, 4, 0)
  /\ \/ result.op = "Vector3.add" /\ result.args = <<1, 1>> /\ heap[3] = V3(6, 8, 0)
     \/ /\ result.op = "Vector3.normalize" /\ result.args = <<1>>
        /\ heap[3] = Vector3(<<3, 5>>, <<4, 5>>, R(0))
     \/ result.op = "Vector3.clone" /\ result.args = <<1>> /\ heap[3] = heap[1]

IsInteger(a) == a[2] = 1

Op(r) == IF r = NoResult THEN "" ELSE r.op


\* C17: add defers: an add step leaves count, getAll and getFirst as they
\* were, appends its entity to the pending queue and returns it; no step
\* other than update brings an entity into the active list; an update step
\* makes the active list the former active entities followed by the pending
\* ones in the order of their add calls, less those queued for removal and
\* those flagged destroyed.
C17_AddDeferred ==
  [][/\ Op(result') = "add" =>
          /\ EntityManager_count(manager') = EntityManager_count(manager)
          /\ EntityManager_getAll(manager') = EntityManager_getAll(manager)
          /\ \A class \in EntityClasses :
               EntityManager_getFirst(manager', objects', class)
                 = EntityManager_getFirst(manager, objects, class)
          /\ result'.args[1] \notin Range(EntityManager_getAll(manager'))
          /\ manager'.toAdd = Append(manager.toAdd, result'.args[1])
          /\ result'.out = result'.args[1]
          /\ result'.out = Len(objects')
     /\ Op(result') # "update" =>
          Range(manager'.entities) \subseteq Range(manager.entities)
     /\ Op(result') = "update" =>
          manager'.entities =
            Filter(manager.entities \o manager.toAdd,
                   {e \in 1..Len(objects) :
                      e \notin manager.toRemove /\ ~objects'[e].destroyed})
    ]_vars

\* Two entities were added and then a third one while the manager was being
\* updated: the first two are active in the order of their add calls and
\* were updated, the third is pending.
C17_Witness ==
  /\ Op(result) = "update"
  /\ manager.entities = <<1, 2>>
  /\ manager.toAdd = <<3>>
  /\ trace = <<<<"update", 1>>, <<"update", 2>>>>

\* C18 as stated: after an update step no active entity is flagged
\* destroyed, and the formerly active entities that are still active are
\* exactly those whose flag is not set, in their former order.
C18_UnflaggedKept ==
  [][Op(result') = "update" =>
       /\ \A e \in Range(manager'.entities) : ~objects'[e].destroyed
       /\ Filter(manager'.entities, Range(manager.entities))
            = Filter(manager.entities,
                     {e \in 1..Len(objects) : ~objects'[e].destroyed})
    ]_vars

\* C18 amended: after an update step no active entity is flagged destroyed,
\* and the formerly active entities that are still active are exactly those
\* whose flag is not set and that were not queued for removal, in their
\* former order.
C18_UnflaggedUnqueuedKept ==
  [][Op(result') = "update" =>
       /\ \A e \in Range(manager'.entities) : ~objects'[e].destroyed
       /\ Filter(manager'.entities, Range(manager.entities))
            = Filter(manager.entities,
                     {e \in 1..Len(objects) :
                        ~objects'[e].destroyed /\ e \notin manager.toRemove})
    ]_vars

\* An update swept the second of three active entities, an enemy flagged
\* destroyed, called its destroy method, and kept the other two in order.
C18_Witness ==
  /\ Op(result) = "update"
  /\ manager.entities = <<1, 3>>
  /\ Len(objects) = 3
  /\ objects[2].destroyed /\ isDestroyable(objects[2])
  /\ trace = <<<<"update", 1>>, <<"update", 2>>, <<"update", 3>>, <<"destroy", 2>>>>

\* C19: a render step calls render and nothing else, once on every active
\* entity, in non-increasing order of position.z, and leaves the active
\* list (getAll, getFirst) and the queues as they were.
C19_RenderOrder ==
  [][Op(result') = "render" =>
       /\ Len(trace') = Len(manager.entities)
       /\ \A k \in 1..Len(trace') : trace'[k][1] = "render"
       /\ \A e \in Range(manager.entities) :
            Cardinality({k \in 1..Len(trace') : trace'[k][2] = e}) = 1
       /\ \A k \in 1..(Len(trace') - 1) :
            RLe(objects[trace'[k + 1][2]].position.z, objects[trace'[k][2]].position.z)
       /\ EntityManager_getAll(manager') = EntityManager_getAll(manager)
       /\ \A class \in EntityClasses :
            EntityManager_getFirst(manager', objects', class)
              = EntityManager_getFirst(manager, objects, class)
       /\ manager' = manager
    ]_vars

\* An enemy, a star and another enemy are active in this order: the star,
\* the farthest, was rendered first, and the list still starts with the enemy.
C19_Witness ==
  /\ Op(result) = "render"
  /\ manager.entities = <<1, 2, 3>>
  /\ objects[1].type = "Enemy" /\ objects[2].type = "Star" /\ objects[3].type = "Enemy"
  /\ trace[1] = <<"render", 2>>
  /\ Len(trace) = 3

\* C20: a clear step leaves no active entity and empty queues, and calls
\* destroy once on every active entity that has the method and nothing
\* else; an update step that follows it adds and updates nothing.
C20_ClearEmpties ==
  [][/\ Op(result') = "clear" =>
          /\ EntityManager_count(manager') = 0
          /\ manager'.toAdd = <<>>
          /\ manager'.toRemove = {}
          /\ \A k \in 1..Len(trace') :
               /\ trace'[k][1] = "destroy"
               /\ trace'[k][2] \in Range(manager.entities)
               /\ isDestroyable(objects[trace'[k][2]])
          /\ \A e \in Range(manager.entities) :
               isDestroyable(objects[e]) =>
                 Cardinality({k \in 1..Len(trace') : trace'[k][2] = e}) = 1
     /\ (Op(result) = "clear" /\ Op(result') = "update") =>
          /\ EntityManager_count(manager') = 0
          /\ trace' = <<>>
          /\ objects' = objects
    ]_vars

\* A clear found two enemies active and called destroy on both.
C20_Witness ==
  /\ Op(result) = "clear"
  /\ manager = NewManager
  /\ trace = <<<<"destroy", 1>>, <<"destroy", 2>>>>

\* The identifiers a keyboard event offers for its key, and the codes the
\* events of the model carry.
KeyCodes == {e.code : e \in KeyboardEvents}

KeyIdentifiers == {e.key : e \in KeyboardEvents} \cup KeyCodes

\* C21: isKeyPressed(k), k the code of a key, becomes true in a step only by
\* a keydown event for k while k is not down, and such an event makes it
\* true; a keydown for a key that is down leaves it as it is; once true it
\* stays true in every step but endFrame; endFrame makes it false for every
\* key and leaves isKeyDown as it is.
C21_PressedOneFrame ==
  [][\A k \in KeyCodes :
       /\ (~isKeyPressed(input, k) /\ isKeyPressed(input', k)) =>
            /\ result'.op = "keydown"
            /\ result'.args[1].code = k
            /\ ~isKeyDown(input, k)
       /\ (result'.op = "keydown" /\ result'.args[1].code = k /\ "keydown" \in listening) =>
            /\ isKeyDown(input', k)
            /\ ~isKeyDown(input, k) => isKeyPressed(input', k)
            /\ isKeyDown(input, k) => (isKeyPressed(input', k) <=> isKeyPressed(input, k))
       /\ (result'.op # "endFrame" /\ isKeyPressed(input, k)) => isKeyPressed(input', k)
       /\ result'.op = "endFrame" =>
            /\ ~isKeyPressed(input', k)
            /\ isKeyDown(input', k) <=> isKeyDown(input, k)
    ]_vars

\* The frame of the press of the A key has ended and the key is still held.
C21_Witness ==
  /\ Op(result) = "endFrame"
  /\ isKeyDown(input, "KeyA")
  /\ ~isKeyPressed(input, "KeyA")
  /\ listening = attach

\* C22 as stated: while the manager listens, after a keydown event
\* isKeyDown is true and after a keyup event false for the key of the
\* event, queried by the event's key value and by its code; no other step,
\* endFrame included, changes isKeyDown of any identifier.
C22_KeyDownByKeyAndCode ==
  [][listening = attach =>
       /\ result'.op = "keydown" =>
            \A k \in {result'.args[1].key, result'.args[1].code} : isKeyDown(input', k)
       /\ result'.op = "keyup" =>
            \A k \in {result'.args[1].key, result'.args[1].code} : ~isKeyDown(input', k)
       /\ result'.op \notin {"keydown", "keyup"} =>
            \A k \in KeyIdentifiers : isKeyDown(input', k) <=> isKeyDown(input, k)
    ]_vars

\* C24: once the manager is destroyed no event changes any of its fields,
\* and a second destroy changes nothing.
C24_DestroyedIgnoresEvents ==
  [][/\ result'.op = "destroy" => (listening' = {} /\ input' = input)
     /\ (listening = {} /\ result'.op \in attach) =>
          /\ input' = input
          /\ \A k \in KeyIdentifiers :
               /\ isKeyDown(input', k) <=> isKeyDown(input, k)
               /\ isKeyPressed(input', k) <=> isKeyPressed(input, k)
               /\ isKeyReleased(input', k) <=> isKeyReleased(input, k)
          /\ isPointerDown(input') <=> isPointerDown(input)
          /\ pointerPosition(input') = pointerPosition(input)
     /\ listening = {} => listening' = {}
    ]_vars

\* The A key was held and the pointer down when the manager was destroyed;
\* a keydown of the left arrow key came later and is not registered.
C24_Witness ==
  /\ Op(result) = "keydown"
  /\ result.args[1].code = "ArrowLeft"
  /\ listening = {}
  /\ isKeyDown(input, "KeyA")
  /\ isPointerDown(input)
  /\ ~isKeyDown(input, "ArrowLeft")

\* The x the paddle has after a move in the given direction during dt
\* seconds: speed * dt further, but with its whole width on the screen.
MovedAndClamped(p, direction, dt) ==
  RMax(RDiv(p.width, R(2)),
       RMin(RSub(R(width), RDiv(p.width, R(2))),
            RAdd(p.position.x, RMul(RMul(direction, p.speed), dt))))

\* The manager reports one of the keys held: a key of the keyboard is down
\* from its keydown event to its keyup event.
Held(keys) == \E e \in PaddleKeys : e.key \in keys /\ isKeyDown(input, e.code)

\* C23: in a frame of a playing, unpaused game the paddle moves left by
\* speed * dt and is clamped if the A key or ArrowLeft is held, and then
\* right by speed * dt and is clamped if ArrowRight is held.
C23_HeldKeysMovePaddle ==
  [][(Op(result') = "frame" /\ ~game.paused /\ arkanoid.state = "playing") =>
       \E dt \in {deltaTime(now, game.lastTime)} :
       \E left \in {IF Held({"a", "ArrowLeft"})
                    THEN [arkanoid.paddle EXCEPT
                            !.position.x = MovedAndClamped(arkanoid.paddle, R(-1), dt)]
                    ELSE arkanoid.paddle} :
         arkanoid'.paddle.position.x =
           IF Held({"d", "ArrowRight"}) THEN MovedAndClamped(left, R(1), dt)
           ELSE left.position.x
    ]_vars

\* The steps of the game that log their calls.
GameOps == {"loop", "pause", "resume", "togglePause", "setScene", "stop"}

\* How many calls of the named hook a log holds.
Count(log, name) == Cardinality({k \in DOMAIN log : log[k].call = name})

\* C25: a loop iteration of a paused game calls no update, only render (of
\* the scene, else of the game) and then input.endFrame(); and a step calls
\* onPause of the active scene once if it takes the game from running to
\* paused and else not at all, and onResume once if it takes the game from
\* paused to running and else not at all, so that a repeated pause or
\* resume calls nothing.
C25_PausedLoopAndHooks ==
  [][/\ (Op(result') = "loop" /\ game.running /\ game.paused) =>
          /\ result'.out = <<[on |-> Receiver(game), arg |-> <<>>, call |-> "render"],
                             [on |-> 0, arg |-> <<>>, call |-> "endFrame"]>>
          /\ input' = endFrame(input)
     /\ Op(result') \in GameOps =>
          /\ Count(result'.out, "onPause") =
               IF ~game.paused /\ game'.paused /\ game.scene # <<>> THEN 1 ELSE 0
          /\ Count(result'.out, "onResume") =
               IF game.paused /\ ~game'.paused /\ game.scene # <<>> THEN 1 ELSE 0
          /\ \A k \in DOMAIN result'.out :
               result'.out[k].call \in {"onPause", "onResume"} =>
                 result'.out[k].on = game.scene[1]
     /\ Op(result') = "pause" => game'.paused
     /\ Op(result') = "resume" => ~game'.paused
     /\ Op(result') = "togglePause" => game'.paused = ~game.paused
     /\ Op(result') \notin {"pause", "resume", "togglePause"} => game'.paused = game.paused
    ]_vars

\* A paused game with a scene ran a loop iteration some time after its
\* last update: the iteration rendered the scene and ended the frame.
C25_Witness ==
  /\ Op(result) = "loop"
  /\ game.running /\ game.paused /\ game.scene = <<1>>
  /\ result.out = <<[on |-> 1, arg |-> <<>>, call |-> "render"],
                    [on |-> 0, arg |-> <<>>, call |-> "endFrame"]>>
  /\ game.lastTime < now

\* C26 (helper): the onEnter and onExit calls of a log alternate for each
\* scene, and onEnter finds no scene active; active is the set of the
\* scenes entered and not yet exited.
RECURSIVE Alternating(_, _)
Alternating(active, log) ==
  IF log = <<>> THEN TRUE
  ELSE IF Head(log).call = "onEnter"
       THEN active = {} /\ Alternating({Head(log).on}, Tail(log))
       ELSE IF Head(log).call = "onExit"
            THEN Head(log).on \in active /\ Alternating(active \ {Head(log).on}, Tail(log))
            ELSE Alternating(active, Tail(log))

\* The scenes whose last lifecycle hook was onEnter.
ActiveScenes == {s \in SceneIds : scenes[s].entered}

\* C26: setScene(s) calls onExit of the previous scene, if any, and then
\* onEnter of s, which finds the game reference of s set; over all steps
\* each scene gets onEnter and onExit in turn, onEnter first, and at most
\* one scene is active at any moment.
C26_SceneLifecycle ==
  [][/\ Op(result') = "setScene" =>
          \E s \in {result'.args[1]} :
            /\ result'.out =
                 (IF game.scene # <<>>
                  THEN <<[on |-> game.scene[1], arg |-> <<0>>, call |-> "onExit"]>>
                  ELSE <<>>)
                 \o <<[on |-> s, arg |-> <<0>>, call |-> "onEnter"]>>
            /\ game'.scene = <<s>>
            /\ scenes'[s].game = <<0>>
     /\ Op(result') \in GameOps => Alternating(ActiveScenes, result'.out)
     /\ Cardinality(ActiveScenes') <= 1
     /\ ActiveScenes' = {s \in SceneIds : game'.scene = <<s>>}
     /\ Op(result') \notin GameOps => ActiveScenes' = ActiveScenes
    ]_vars

\* setScene replaced scene 1 by scene 2: scene 1 was exited, then scene 2
\* entered.
C26_Witness ==
  /\ Op(result) = "setScene"
  /\ result.out = <<[on |-> 1, arg |-> <<0>>, call |-> "onExit"],
                    [on |-> 2, arg |-> <<0>>, call |-> "onEnter"]>>
  /\ ActiveScenes = {2}

\* C27: every delta time the loop passes to update is at most 0.1 seconds.
C27_DeltaTimeCapped ==
  [][Op(result') = "loop" =>
       \A k \in DOMAIN result'.out :
         result'.out[k].call = "update" => RLe(result'.out[k].arg, <<1, 10>>)
    ]_vars

\* The loop ran more than 100 ms after the last update and passed 0.1.
C27_Witness ==
  /\ Op(result) = "loop"
  /\ result.args[1] - result.args[2] > 100
  /\ \E k \in DOMAIN result.out :
       result.out[k].call = "update" /\ result.out[k].arg = <<1, 10>>

\* The bricks of the game that are alive.
AliveBricks(a) == {i \in DOMAIN a.bricks : ~a.bricks[i].destroyed}

\* C28: the state changes only in an update, and only from playing to won
\* with no brick left alive, from playing to lost with the ball fallen and
\* no life left, or from won or lost to playing with the pointer pressed,
\* lives 3, score 0 and a new grid; each of these conditions makes its
\* transition; and an update of a playing game resets nothing: it costs at
\* most one life, never lowers the score and revives no brick.
C28_StateMachine ==
  [][\E updated \in {Op(result') = "frame" /\ ~game.paused} :
     /\ arkanoid'.state # arkanoid.state =>
          /\ updated
          /\ \/ /\ arkanoid.state = "playing" /\ arkanoid'.state = "won"
                /\ AliveBricks(arkanoid') = {}
             \/ /\ arkanoid.state = "playing" /\ arkanoid'.state = "lost"
                /\ result'.args[1] = -1
                /\ arkanoid'.lives = 0
             \/ /\ arkanoid.state \in {"won", "lost"} /\ arkanoid'.state = "playing"
                /\ isPointerPressed(input)
     /\ (updated /\ arkanoid.state = "playing") =>
          /\ AliveBricks(arkanoid') = {} => arkanoid'.state = "won"
          /\ (result'.args[1] = -1 /\ arkanoid.lives = 1) => arkanoid'.state = "lost"
          /\ arkanoid'.lives \in {arkanoid.lives, arkanoid.lives - 1}
          /\ arkanoid'.score \in {arkanoid.score, arkanoid.score + 10}
          /\ AliveBricks(arkanoid') \subseteq AliveBricks(arkanoid)
     /\ (updated /\ arkanoid.state \in {"won", "lost"}) =>
          IF isPointerPressed(input)
          THEN /\ arkanoid'.state = "playing"
               /\ arkanoid'.lives = 3
               /\ arkanoid'.score = 0
               /\ arkanoid'.bricks = NewArkanoidGame(R(width), R(height)).bricks
          ELSE arkanoid' = arkanoid
    ]_vars

\* The game was lost after one brick was hit: no life is left.
C28_Witness ==
  /\ Op(result) = "frame"
  /\ arkanoid.state = "lost"
  /\ arkanoid.lives = 0
  /\ arkanoid.score = 10

\* The point of a ray at time t.
RayPoint(o, d, t) == Vector2(RAdd(o.x, RMul(d.x, t)), RAdd(o.y, RMul(d.y, t)))

InBox(p, box) ==
  /\ RLe(box.x, p.x) /\ RLe(p.x, RAdd(box.x, box.width))
  /\ RLe(box.y, p.y) /\ RLe(p.y, RAdd(box.y, box.height))

\* The times at which the line of a ray is in the box and on the line of
\* one of its edges, and time 0 if the origin is in the box: the line meets
\* the box from the least to the greatest of them, or not at all.
MeetingTimes(o, d, box) ==
  {t \in {R(0)}
       \cup (IF d.x # R(0)
             THEN {RDiv(RSub(box.x, o.x), d.x), RDiv(RSub(RAdd(box.x, box.width), o.x), d.x)}
             ELSE {})
       \cup (IF d.y # R(0)
             THEN {RDiv(RSub(box.y, o.y), d.y), RDiv(RSub(RAdd(box.y, box.height), o.y), d.y)}
             ELSE {}) :
     InBox(RayPoint(o, d, t), box)}

\* The hit has a contact time from 0 to 1, its contact point is that far
\* along the ray, and its normal is a unit vector of one axis against the
\* direction of the ray on that axis.
GoodHit(o, d, hit) ==
  /\ RLe(R(0), hit.contactTime) /\ RLe(hit.contactTime, R(1))
  /\ hit.contactPoint = RayPoint(o, d, hit.contactTime)
  /\ \/ /\ hit.contactNormal = Vector2(R(-1), R(0)) /\ RLt(R(0), d.x)
     \/ /\ hit.contactNormal = Vector2(R(1), R(0)) /\ RLt(d.x, R(0))
     \/ /\ hit.contactNormal = Vector2(R(0), R(-1)) /\ RLt(R(0), d.y)
     \/ /\ hit.contactNormal = Vector2(R(0), R(1)) /\ RLt(d.y, R(0))

\* C29: rayIntersectsBoundingBox returns null when the box is behind the
\* origin (the line meets it at negative times only), when the ray misses
\* it (the line never meets it) and when it is beyond the ray (the line
\* meets it after time 1 only), and every hit it returns has a contact time
\* from 0 to 1, the contact point at that time and an axis-aligned unit
\* normal against the ray.
C29_RaycastHit ==
  Op(result) = "rayIntersectsBoundingBox" =>
    \E o \in {result.args[1]}, d \in {result.args[2]}, box \in {result.args[3]} :
    \E meets \in {MeetingTimes(o, d, box)} :
      /\ (\A t \in meets : RLt(t, R(0))) => result.out = <<>>
      /\ (\A t \in meets : RLt(R(1), t)) => result.out = <<>>
      /\ result.out # <<>> => GoodHit(o, d, result.out[1])

\* Neither endpoint is behind the near plane: a depth of exactly 1.0 is not
\* behind.
NoneBehind(f) == ~RLt(f.p1.z, R(1)) /\ ~RLt(f.p2.z, R(1))

\* C30: a face with neither view-space endpoint behind the near plane is
\* not clipped: the endpoints after the clipping block are its own, and its
\* quad is projected from their x and z.
C30_NoClipping ==
  Rendered =>
    \A k \in 1..Len(KeptFaces) :
      \E f \in {KeptFaces[k]} :
        NoneBehind(f) =>
          /\ clipFace(f).v1 = f.p1
          /\ clipFace(f).v2 = f.p2
          /\ FillCalls[k].path = WallPath(f.p1.x, f.p1.z, f.p2.x, f.p2.z)

\* A drawn face with one endpoint exactly on the near plane and the other
\* beyond it.
C30_Witness ==
  /\ Rendered
  /\ \E k \in 1..Len(KeptFaces) :
       /\ KeptFaces[k].p1.z = R(1)
       /\ RLt(R(1), KeptFaces[k].p2.z)
       /\ FillCalls[k].path = WallPath(KeptFaces[k].p1.x, R(1),
                                       KeptFaces[k].p2.x, KeptFaces[k].p2.z)

\* The world point of a local point: its (x, z) turned by the mesh yaw, then
\* the mesh position added.
RotatedThenMoved(p, mesh) ==
  Vector3(RAdd(rotateVector2(Vector2(p.x, p.z), mesh.rotation).x, mesh.position.x),
          RAdd(p.y, mesh.position.y),
          RAdd(rotateVector2(Vector2(p.x, p.z), mesh.rotation).y, mesh.position.z))

\* The view point of a world point: the camera position subtracted, then
\* the (x, z) turned by the negative camera yaw.
MovedThenRotated(p, cam) ==
  Vector3(rotateVector2(Vector2(RSub(p.x, cam.position.x), RSub(p.z, cam.position.z)),
                        -cam.rotation).x,
          RSub(p.y, cam.position.y),
          rotateVector2(Vector2(RSub(p.x, cam.position.x), RSub(p.z, cam.position.z)),
                        -cam.rotation).y)

\* The other order for the view point: turned first, moved second.
RotatedThenMovedBack(p, cam) ==
  Vector3(RSub(rotateVector2(Vector2(p.x, p.z), -cam.rotation).x, cam.position.x),
          RSub(p.y, cam.position.y),
          RSub(rotateVector2(Vector2(p.x, p.z), -cam.rotation).y, cam.position.z))

\* C31: every face of the frame has the view-space endpoints of a face of
\* the scene, each the local endpoint rotated by the mesh yaw and moved by
\* the mesh position, then moved by the negative camera position and
\* rotated by the negative camera yaw; and there is one such face for each
\* face of the scene.
C31_TransformOrder ==
  Rendered =>
    /\ \A k \in 1..Len(transformedFaces) :
         \E m \in 1..Len(scene) :
           \E i \in 1..Len(scene[m].faces) :
             /\ transformedFaces[k].p1 =
                  MovedThenRotated(RotatedThenMoved(scene[m].faces[i].p1, scene[m]), camera)
             /\ transformedFaces[k].p2 =
                  MovedThenRotated(RotatedThenMoved(scene[m].faces[i].p2, scene[m]), camera)
    /\ Len(transformedFaces) = Len(ViewFaces)

\* A frame of a mesh turned by a quarter and moved, seen by a camera turned
\* by a quarter and moved: the other order would give another view point.
C31_Witness ==
  /\ Rendered
  /\ Len(scene) = 1 /\ Len(transformedFaces) = 1
  /\ scene[1].rotation = 1 /\ scene[1].position = V3(10, 0, 20)
  /\ camera.rotation = 1 /\ camera.position = V3(0, 0, 40)
  /\ transformedFaces[1].p1 =
       MovedThenRotated(RotatedThenMoved(scene[1].faces[1].p1, scene[1]), camera)
  /\ transformedFaces[1].p1 #
       RotatedThenMovedBack(RotatedThenMoved(scene[1].faces[1].p1, scene[1]), camera)


\* The entities whose update method a manager call ran, in call order.
UpdatedIn(log) ==
  LET ran == SelectSeq(log, LAMBDA c : c[1] = "update")
  IN  [k \in 1..Len(ran) |-> ran[k][2]]

\* C32 as stated: in an update step the entities handed to add during the
\* step are neither updated nor active after it, every entity that was
\* pending before the step is updated in it, the entities handed to remove
\* during the step are still active after it, and the entities queued for
\* removal before the step are not updated and not held after it.
C32_StableList ==
  [][Op(result') = "update" =>
       /\ \A e \in Range(manager'.toAdd) :
            e \notin Range(UpdatedIn(trace')) /\ e \notin Range(manager'.entities)
       /\ \A e \in Range(manager.toAdd) : e \in Range(UpdatedIn(trace'))
       /\ \A e \in Range(result'.args[1]) :
            e \in manager'.toRemove /\ e \in Range(manager'.entities)
       /\ \A e \in manager.toRemove :
            /\ e \notin Range(UpdatedIn(trace'))
            /\ e \notin Range(manager'.entities) \cup Range(manager'.toAdd)
    ]_vars

\* C32 amended: an update step updates, once each and in list order, the
\* formerly active entities followed by the formerly pending ones, less
\* those queued for removal before the step; the entities handed to add
\* during the step are neither updated nor active after it; every entity
\* that was pending before the step and not queued for removal is updated
\* in it; an entity handed to remove during the step is updated and is
\* still active after the step unless its destroyed flag is set; and the
\* entities queued for removal before the step are not updated and not held
\* after it.
C32_StableListUnlessSwept ==
  [][Op(result') = "update" =>
       /\ UpdatedIn(trace')
            = Filter(manager.entities \o manager.toAdd,
                     {e \in 1..Len(objects) : e \notin manager.toRemove})
       /\ \A e \in Range(manager'.toAdd) :
            e \notin Range(UpdatedIn(trace')) /\ e \notin Range(manager'.entities)
       /\ \A e \in Range(manager.toAdd) \ manager.toRemove :
            e \in Range(UpdatedIn(trace'))
       /\ \A e \in Range(result'.args[1]) :
            /\ e \in Range(UpdatedIn(trace'))
            /\ e \in manager'.toRemove
            /\ e \in Range(manager'.entities) <=> ~objects'[e].destroyed
       /\ \A e \in manager.toRemove :
            /\ e \notin Range(UpdatedIn(trace'))
            /\ e \notin Range(manager'.entities) \cup Range(manager'.toAdd)
    ]_vars

\* An update ran over two active entities; during it a third entity was
\* handed to add and the second one to remove: both listed entities were
\* updated, the second is still active and queued, the third is pending.
C32_Witness ==
  /\ Op(result) = "update"
  /\ manager.entities = <<1, 2>>
  /\ manager.toAdd = <<3>>
  /\ result.args = <<<<2>>>>
  /\ manager.toRemove = {2}
  /\ ~objects[2].destroyed
  /\ trace = <<<<"update", 1>>, <<"update", 2>>>>


\* The names of the calls of a log, in call order.
CallNames(log) == [k \in 1..Len(log) |-> log[k].call]

\* C33: an iteration of the loop of a running game calls update unless
\* paused, then render, then endFrame, so that update and render find the
\* pressed keys as the events before the iteration left them and no key is
\* pressed after it; a keydown of a key that was up makes the key pressed,
\* no other step does, and no step but an iteration ends a key's being
\* pressed: the press is seen by the calls of the next iteration and by
\* none after it, paused or not.
C33_PressSeenOnce ==
  [][/\ Op(result') = "keydown" /\ "keydown" \in listening
          /\ result'.args[1].code \notin input.keysDown
        => isKeyPressed(input', result'.args[1].code)
     /\ \A code \in input'.keysPressed \ input.keysPressed :
          /\ Op(result') = "keydown"
          /\ code = result'.args[1].code
          /\ ~isKeyDown(input, code)
     /\ Op(result') # "loop" => input.keysPressed \subseteq input'.keysPressed
     /\ Op(result') = "loop" /\ game.running =>
          /\ CallNames(result'.out)
               = IF game.paused THEN <<"render", "endFrame">>
                 ELSE <<"update", "render", "endFrame">>
          /\ \A k \in 1..Len(result'.out) :
               result'.out[k].call \in {"update", "render"} =>
                 inputBefore(result'.out, input, k).keysPressed = input.keysPressed
          /\ input'.keysPressed = {}
    ]_vars

\* The A key went down while the game was paused and the next iteration,
\* which rendered and did not update, has ended its being pressed; the key
\* is still held.
C33_Witness ==
  /\ Op(result) = "loop"
  /\ game.running /\ game.paused
  /\ CallNames(result.out) = <<"render", "endFrame">>
  /\ input.keysDown = {"KeyA"}
  /\ input.keysPressed = {}


\* C34: a stop step of a running game finds one requested animation frame
\* not yet run; a stop step leaves the game not running, without scene,
\* without its resize listener and the input manager without listeners,
\* calls onExit once, on the scene the game had, and nothing else, and
\* requests no frame; once the game is not running it stays so, a frame
\* that is due runs loop without any call and without touching the input
\* manager, no step calls update, render or endFrame, and no step requests
\* a frame.
C34_StopEndsLoop ==
  [][/\ Op(result') = "stop" =>
          /\ game.running => game.requested = 1
          /\ ~game'.running /\ game'.scene = <<>> /\ ~game'.resizeBound
          /\ listening' \cap attach = {}
          /\ game'.requested = game.requested
          /\ Len(result'.out) = IF game.scene # <<>> THEN 1 ELSE 0
          /\ game.scene # <<>> =>
               /\ result'.out[1].call = "onExit"
               /\ result'.out[1].on = game.scene[1]
               /\ ~scenes'[game.scene[1]].entered
     /\ ~game.running =>
          /\ ~game'.running
          /\ game'.requested <= game.requested
          /\ game'.requested = 0 \/ game'.requested = 1
          /\ Op(result') \notin {"tick", "keydown", "keyup"} =>
               \A k \in 1..Len(result'.out) :
                 result'.out[k].call \notin {"update", "render", "endFrame"}
          /\ Op(result') = "loop" =>
               /\ result'.out = <<>>
               /\ input' = input
               /\ game'.requested = game.requested - 1
    ]_vars

\* A game with a scene was stopped and the frame it had requested has run
\* since: no call was made, no frame is requested, the scene was left.
C34_Witness ==
  /\ Op(result) = "loop"
  /\ ~game.running /\ game.requested = 0 /\ game.scene = <<>> /\ ~game.resizeBound
  /\ result.out = <<>>
  /\ scenes[1].game = <<0>> /\ ~scenes[1].entered
  /\ listening = {}


\* C35: after an iteration of SimpleDoomGame's loop, running or paused, the
\* size the renderer was called with in it is the size of the window.
C35_RendererSizeCurrent ==
  Op(result) = "frame" =>
    /\ result.args[1] = result.args[2]
    /\ <<width, height>> = game.window


\* The destroyed bricks of the grid.
DestroyedBricks(a) == DOMAIN a.bricks \ AliveBricks(a)

\* C36: the score is 10 times the number of destroyed bricks of the grid;
\* a step destroys at most one brick, and adds 10 to the score when it
\* destroys one and nothing when it destroys none, unless it is a restart,
\* which sets the score to 0 and every brick of the grid alive.
C36_ScoreCountsBricks ==
  [][/\ arkanoid.score = 10 * Cardinality(DestroyedBricks(arkanoid))
     /\ arkanoid'.score = 10 * Cardinality(DestroyedBricks(arkanoid'))
     /\ IF Op(result') = "frame" /\ ~game.paused
           /\ arkanoid.state \in {"won", "lost"} /\ isPointerPressed(input)
        THEN arkanoid'.score = 0 /\ DestroyedBricks(arkanoid') = {}
        ELSE /\ DestroyedBricks(arkanoid) \subseteq DestroyedBricks(arkanoid')
             /\ Cardinality(DestroyedBricks(arkanoid') \ DestroyedBricks(arkanoid)) <= 1
             /\ arkanoid'.score - arkanoid.score
                  = 10 * Cardinality(DestroyedBricks(arkanoid') \ DestroyedBricks(arkanoid))
    ]_vars

\* The ray of the ball's movement hit both bricks of the grid, the first of
\* them destroyed before: the update destroyed the second and the score is
\* 20; the game is won.
C36_Witness ==
  /\ Op(result) = "frame"
  /\ result.args = <<0, {1, 2}>>
  /\ DestroyedBricks(arkanoid) = {1, 2}
  /\ arkanoid.score = 20
  /\ arkanoid.state = "won"


\* The projection scale project computes for a point.
ScaleOf(v, focalLength) == RDiv(focalLength, safeZ(v))

\* C37: in a rendered frame the two endpoints every drawn face has after
\* the clipping block are at depth 1 or more, so that the divisor project
\* takes is their own depth and the scale is at most the camera's fov; the
\* quad drawn is the perspective division of these endpoints.
C37_ProjectedBeyondNearPlane ==
  Rendered =>
    \A k \in 1..Len(KeptFaces) :
      \E cl \in {clipFace(KeptFaces[k])} :
        /\ \A v \in {cl.v1, cl.v2} :
             /\ RLe(R(1), v.z)
             /\ safeZ(v) = v.z
             /\ RLe(ScaleOf(v, camera.fov), camera.fov)
        /\ FillCalls[k].path = WallPath(cl.v1.x, cl.v1.z, cl.v2.x, cl.v2.z)

\* A drawn face whose second endpoint was behind the near plane: the clip
\* point is at depth 1 and projected with the scale fov, the first endpoint
\* with a smaller one.
C37_Witness ==
  /\ Rendered
  /\ \E k \in 1..Len(KeptFaces) :
       /\ RLt(KeptFaces[k].p2.z, R(1))
       /\ clipFace(KeptFaces[k]).v2.z = R(1)
       /\ ScaleOf(clipFace(KeptFaces[k]).v2, camera.fov) = camera.fov
       /\ RLt(ScaleOf(clipFace(KeptFaces[k]).v1, camera.fov), camera.fov)


\* C38: for every drawn face of a rendered frame with exactly one endpoint
\* behind the near plane, the divisor of the clip parameter is not zero,
\* the parameter is between 0 and 1, and the endpoint that replaces the one
\* behind is the point of the segment at that parameter: its depth 1 and
\* its x are those of v1 + t (v2 - v1), and its x is between the two
\* endpoints' x.
C38_ClipOnSegment ==
  Rendered =>
    \A k \in 1..Len(KeptFaces) :
      \E f \in {KeptFaces[k]} :
        OneBehind(f) =>
          \E cl \in {clipFace(f)} :
            \E newV \in {IF RLt(f.p1.z, R(1)) THEN cl.v1 ELSE cl.v2} :
              /\ RSub(f.p2.z, f.p1.z) # R(0)
              /\ cl.t # NonFinite
              /\ RLe(R(0), cl.t) /\ RLe(cl.t, R(1))
              /\ newV.z = RAdd(f.p1.z, RMul(cl.t, RSub(f.p2.z, f.p1.z)))
              /\ newV.x = RAdd(f.p1.x, RMul(cl.t, RSub(f.p2.x, f.p1.x)))
              /\ RLe(RMin(f.p1.x, f.p2.x), newV.x)
              /\ RLe(newV.x, RMax(f.p1.x, f.p2.x))
              /\ newV.z = R(1)

\* A drawn face whose first endpoint is behind the plane and whose second
\* is beyond it, not straight ahead of the first: the parameter is strictly
\* between 0 and 1 and the clip point strictly between the endpoints.
C38_Witness ==
  /\ Rendered
  /\ \E k \in 1..Len(KeptFaces) :
       \E f \in {KeptFaces[k]} :
         /\ RLt(f.p1.z, R(1)) /\ RLt(R(1), f.p2.z)
         /\ RLt(R(0), clipFace(f).t) /\ RLt(clipFace(f).t, R(1))
         /\ RLt(RMin(f.p1.x, f.p2.x), clipFace(f).v1.x)
         /\ RLt(clipFace(f).v1.x, RMax(f.p1.x, f.p2.x))


\* The heights put in the place of the vertical coordinates.
Heights == {R(0), R(13), R(-7)}

\* The scene with the y of every mesh position and of every face endpoint
\* replaced, and the camera with the y of its position replaced.
SceneAtHeight(sc, meshY, y1, y2) ==
  [m \in 1..Len(sc) |->
     [sc[m] EXCEPT !.position.y = meshY,
                   !.faces = [i \in 1..Len(sc[m].faces) |->
                                [sc[m].faces[i] EXCEPT !.p1.y = y1, !.p2.y = y2]]]]

CameraAtHeight(cam, y) == [cam EXCEPT !.position.y = y]

\* C39: the draw calls of a rendered frame are those of a render call on
\* the same scene and camera with any other vertical coordinates of the
\* mesh positions, the face endpoints and the camera position.
C39_HeightsIgnored ==
  Rendered =>
    \A meshY \in Heights, y1 \in Heights, y2 \in Heights, camY \in Heights :
      FrameCalls(SceneAtHeight(scene, meshY, y1, y2), CameraAtHeight(camera, camY),
                 width, height) = calls

\* A frame with a clipped wall drawn: other heights give other view-space
\* faces and the same draw calls.
C39_Witness ==
  /\ Rendered
  /\ Len(FillCalls) = 1
  /\ OneBehind(KeptFaces[1])
  /\ render(NewContext, SceneAtHeight(scene, R(13), R(-7), R(13)),
            CameraAtHeight(camera, R(-7)), R(width), R(height)).faces # transformedFaces
  /\ FrameCalls(SceneAtHeight(scene, R(13), R(-7), R(13)), CameraAtHeight(camera, R(-7)),
                width, height) = calls


\* The calls of the selector loop a launcher step made with a game set.
SelectorCallsInGame ==
  IF Op(result) \in {"selectorLoop", "click", "returnToMenu"}
  THEN {k \in 1..Len(result.out) :
          /\ result.out[k].call \in {"handleSelectorInput", "renderSelector"}
          /\ result.out[k].arg # <<>>}
  ELSE {}

\* C40: at most one frame is requested for selectorLoop at any time, none
\* while a game is set once the frame requested before the launch has run,
\* and no launcher step calls handleSelectorInput or renderSelector with
\* currentGame set.
C40_OneSelectorChain ==
  /\ launcher.requested <= 1
  /\ SelectorCallsInGame = {}

====
